---- MODULE Spec2Model ----
(***************************************************************************)
(* ballot_box_analysis: the geocoding pipeline of geocode.py, the          *)
(* isochrone generator of isochrone.py and the spatial join of join.py.    *)
(*                                                                         *)
(* Geocoder.geocode resolves the rows of an address table batch by batch.  *)
(* Every batch is mapped over a process pool; each task runs               *)
(* Geocoder._geocode_single, which consults the census cache, the census   *)
(* geocoder, and then Geocoder._geocode_single_google.  The cache is four  *)
(* directories of JSON files keyed by building_id; the resolved rows are   *)
(* appended to a DuckDB table whose primary key is building_id.            *)
(*                                                                         *)
(* A task is modelled statement by statement at the granularity of its     *)
(* file-system and network operations, because the tasks of a batch run    *)
(* in separate processes over the same cache directory.                    *)
(*                                                                         *)
(* IsochroneGenerator.generate_isochrones asks the TravelTime service for  *)
(* one isochrone per location, one location after the other, and keeps     *)
(* the answers in JSON files named by _construct_filename.                 *)
(*                                                                         *)
(* SpatialJoiner.summary of join.py counts the voters whose point is       *)
(* within some isochrone.                                                  *)
(*                                                                         *)
(* The programs specified: Spec (a Geocoder, every call of geocode on a    *)
(* new one), SpecAgain (geocode also called twice on one Geocoder),        *)
(* IsoSpec (an IsochroneGenerator; IsoLive adds that its steps are taken), *)
(* PlaceSpec (an IsochroneGenerator whose locations are at places of their *)
(* own), CacheDirSpec (an IsochroneGenerator with set_cache_dir), JoinSpec *)
(* (a SpatialJoiner and a call of summary), and the functions on their     *)
(* own: NameSpec (_construct_filename), ArrivalSpec (set_arrival_time and  *)
(* the filename made after it), ShapeSpec (_isochrone_response_to_shape)   *)
(* and IdSpec (_generate_id).                                              *)
(***************************************************************************)
EXTENDS Integers, Sequences, FiniteSets, TLC

(***************************************************************************)
(* Bounds of the model.                                                    *)
(***************************************************************************)
\* Longest address table handed to a Geocoder.
MaxRows == 2
\* Largest batch_size argument of geocode (the code's default is 500).
MaxBatchSize == 2
\* The processes argument of geocode (the code's default is 50).
Processes == 2
\* Longest table of locations handed to an IsochroneGenerator.
MaxLocations == 2
\* Largest max_retries argument of generate_isochrones (the default is 4).
MaxRetries == 4
\* Longest location name handed to Location.
MaxNameLen == 2
\* The largest number of rows of the voter table given to SpatialJoiner.
MaxVoterRows == 2
\* The largest number of isochrone polygons given to SpatialJoiner.
MaxPolygons == 2
\* The largest number of rows of a table whose ids are generated on its own.
MaxIdRows == 2
\* The largest number of shapes of a response converted on its own.
MaxShapes == 2
\* Shares are kept to this many parts of one.
SharePrecision == 1000
\* The number of years, from 2024 on, the program is run in.
MaxYears == 2

(***************************************************************************)
(* Text.  A string is a sequence of characters; str.lower() maps every     *)
(* upper-case character to its lower-case one.                             *)
(***************************************************************************)
LowerChar(c) ==
    CASE c = "M" -> "m"
      [] c = "E" -> "e"
      [] c = "A" -> "a"
      [] c = "C" -> "c"
      [] c = "S" -> "s"
      [] OTHER -> c

RECURSIVE lower(_)
lower(s) == IF s = <<>> THEN <<>> ELSE <<LowerChar(Head(s))>> \o lower(Tail(s))

\* "".join(parts)
RECURSIVE concat(_)
concat(parts) == IF parts = <<>> THEN <<>> ELSE Head(parts) \o concat(Tail(parts))

(***************************************************************************)
(* The address table.  A row has the four address columns and a unit; the  *)
(* street comes in two letter cases of one address and a second address.   *)
(***************************************************************************)
AddressRow(street, unit) ==
    [street |-> street, city |-> <<"c">>, state |-> <<"s">>, zip |-> <<"9">>, unit |-> unit]

\* The rows an input table is drawn from: two units of one building, the same
\* building written in upper case, and another building.
AddressRows ==
    { AddressRow(<<"m">>, <<"1">>), AddressRow(<<"m">>, <<"2">>),
      AddressRow(<<"M">>, <<"1">>), AddressRow(<<"e">>, <<"1">>) }

\* The input tables.  The unit is not part of a building's id, so a table that
\* lists unit 2 of a building without its unit 1 behaves as the table with
\* the units renamed: a table lists a building's unit 2 only along with its
\* unit 1.  Rows may repeat.
AddressTables ==
    { t \in UNION { [1..n -> AddressRows] : n \in 1..MaxRows } :
        \A i \in DOMAIN t :
            t[i].unit = <<"2">> => \E j \in DOMAIN t : t[j] = [t[i] EXCEPT !.unit = <<"1">>] }

\* hashlib.sha256(text).hexdigest(), taken as injective: the digest of a text
\* is represented by the text.
sha256(text) == text

\* The text of the components is hashed as it is written.
GenerateIdCaseSensitive(row, include_unit, unit_col) ==
    LET components == <<row.street, row.city, row.state, row.zip>>
        all == IF include_unit /\ unit_col THEN Append(components, row.unit) ELSE components
    IN sha256(concat(all))

\* Geocoder._generate_id; unit_col is TRUE when a unit column is configured.
_generate_id(row, include_unit, unit_col) ==
    LET components == <<row.street, row.city, row.state, row.zip>>
        all == IF include_unit /\ unit_col THEN Append(components, row.unit) ELSE components
    IN sha256(lower(concat(all)))

building_id(row) == _generate_id(row, FALSE, TRUE)

BuildingIds == { building_id(r) : r \in AddressRows }

\* The rows of a table whose ids are generated on its own: street, city and
\* state in two letter cases, another street, a street that ends with the
\* letter a city begins with, and units of which two differ in letter case
\* only.
IdRows ==
    [street : {<<"m">>, <<"M">>, <<"e">>, <<"m", "e">>}, city : {<<"c">>, <<"C">>, <<"e", "c">>},
     state : {<<"s">>, <<"S">>}, zip : {<<"9">>}, unit : {<<"a">>, <<"A">>, <<"b">>}]

\* Such a table, and whether the Geocoder has a unit_col.
IdTables ==
    [rows : UNION { [1..n -> IdRows] : n \in 1..MaxIdRows }, unit_col : BOOLEAN]

(***************************************************************************)
(* JSON values: what the two services return and what the cache files      *)
(* hold.  A value carries its Python type (list, dict, None), which is     *)
(* what geocode tells the two services' layouts apart by.                  *)
(***************************************************************************)
None == [kind |-> "None"]

\* censusgeocode's answer: a list of candidates, each with coordinates x, y.
CensusResult(x, y) == [kind |-> "list", items |-> << [coordinates |-> [x |-> x, y |-> y]] >>]
CensusEmpty == [kind |-> "list", items |-> << >>]

\* Google's answer: an object with a status and, when OK, results.
GoogleOK(lat, lng) ==
    [kind |-> "dict", status |-> "OK",
     results |-> << [geometry |-> [location |-> [lat |-> lat, lng |-> lng]]] >>]
GoogleNotOK == [kind |-> "dict", status |-> "ZERO_RESULTS", results |-> << >>]

\* The answers the services can give for an address.
CensusAnswers == {CensusEmpty, CensusResult(1, 2)}
GoogleAnswers == {GoogleNotOK, GoogleOK(5, 6)}

\* bool(value)
Truthy(v) ==
    CASE v.kind = "None" -> FALSE
      [] v.kind = "list" -> v.items # << >>
      [] OTHER -> TRUE

\* isinstance(value, dict)
IsDict(v) == v.kind = "dict"

(***************************************************************************)
(* Cache files.  A file is absent, open for writing with its text not yet  *)
(* written out (truncated), or holds a complete JSON text.                 *)
(***************************************************************************)
Absent == [kind |-> "absent"]
Truncated == [kind |-> "truncated"]

\* Path.exists()
Exists(file) == file # Absent

\* json.load(f) fails on a text that is not a complete JSON document.
Decodable(file) == file # Absent /\ file # Truncated

\* open(path, "w") creates the file or empties an existing one.
OpenForWrite(dir, id) == [dir EXCEPT ![id] = Truncated]

\* json.dump(value, f) and the close at the end of the with block.
Dump(dir, id, value) == [dir EXCEPT ![id] = value]

(***************************************************************************)
(* io.py and isochrone.py: names.  A text is a sequence of symbols: the    *)
(* characters of a location name, the digits of a number, "_", "-", and    *)
(* the words that have none of these in them.                              *)
(***************************************************************************)
\* The characters location names are drawn from: a letter, the hyphen and
\* the underscore.
NameChars == {"a", "-", "_"}

\* The names a table of locations gives its rows.
RawNames == UNION { [1..n -> NameChars] : n \in 1..MaxNameLen }

\* The class [a-zA-Z0-9-] of the pattern of line 40.
Kept(c) == c \in {"a", "b", "0", "1", "2", "3", "4", "5", "6", "7", "8", "9", "-"}

\* Location.sanitize_name_or_id: re.sub(r"[^a-zA-Z0-9-]", "", value)
sanitize_name_or_id(value) == SelectSeq(value, Kept)

\* Location(name_or_id=..., lat=..., lng=...): the name is sanitized by
\* __init__; the coordinates only go into the request and are left out.
Location(name) == [name_or_id |-> sanitize_name_or_id(name)]

\* TRAVEL_TYPES (io.py line 6)
TravelTypes == { <<"driving">>, <<"public", "_", "transport">>, <<"walking">> }

\* WEEK_DAYS (io.py line 7); strftime("%A") of a date gives the name of its
\* weekday, Monday being day 1.
WeekDays == <<"Monday", "Tuesday", "Wednesday", "Thursday", "Friday", "Saturday", "Sunday">>

Digits == <<"0", "1", "2", "3", "4", "5", "6", "7", "8", "9">>

\* str(n) of a number that is not negative
RECURSIVE str(_)
str(n) == IF n < 10 THEN <<Digits[n + 1]>> ELSE str(n \div 10) \o <<Digits[(n % 10) + 1]>>

\* The hour and the minute written without leading zeros.
HHMMUnpadded(hour, minute) == str(hour) \o str(minute)

\* strftime("%H%M"): the hour and the minute, two digits each.
HHMM(hour, minute) ==
    <<Digits[(hour \div 10) + 1], Digits[(hour % 10) + 1],
      Digits[(minute \div 10) + 1], Digits[(minute % 10) + 1]>>

\* sep.join(parts)
RECURSIVE join(_, _)
join(sep, parts) ==
    IF parts = << >> THEN << >>
    ELSE IF Len(parts) = 1 THEN parts[1]
    ELSE parts[1] \o sep \o join(sep, Tail(parts))

\* IsochroneGenerator._construct_filename.  self has the travel_type and the
\* arrival time that _parse_arrival_time reads back from arrival_time_iso:
\* its weekday, hour and minute.
_construct_filename(self, location, minutes) ==
    LET arrival_weekday == << WeekDays[self.arrival.weekday] >>
        arrival_hhmm == HHMM(self.arrival.hour, self.arrival.minute)
        stem == join(<<"_", "-", "_">>,
                     <<location.name_or_id, self.travel_type, str(minutes),
                       arrival_weekday, arrival_hhmm>>)
    IN stem \o <<".json">>

(***************************************************************************)
(* isochrone.py: the arrival time.  A date is a year, a month and a day;   *)
(* a datetime has an hour, a minute and the offset of its time zone too.   *)
(***************************************************************************)
Date(year, month, day) == [year |-> year, month |-> month, day |-> day]

IsLeap(year) == (year % 4 = 0 /\ year % 100 # 0) \/ year % 400 = 0

DaysInMonth(year, month) ==
    CASE month \in {4, 6, 9, 11} -> 30
      [] month = 2 -> IF IsLeap(year) THEN 29 ELSE 28
      [] OTHER -> 31

\* The dates datetime.date.today() gives: every day of the years the program
\* is run in.
Years == 2024..(2023 + MaxYears)

Dates ==
    UNION { { Date(year, month, day) : day \in 1..DaysInMonth(year, month) } :
               year \in Years, month \in 1..12 }

\* The number of days from 1 January 2024, a Monday, to a date.
RECURSIVE DaysBeforeYear(_)
DaysBeforeYear(year) ==
    IF year = 2024 THEN 0
    ELSE DaysBeforeYear(year - 1) + (IF IsLeap(year - 1) THEN 366 ELSE 365)

RECURSIVE DaysBeforeMonth(_, _)
DaysBeforeMonth(year, month) ==
    IF month = 1 THEN 0
    ELSE DaysBeforeMonth(year, month - 1) + DaysInMonth(year, month - 1)

Ordinal(date) == DaysBeforeYear(date.year) + DaysBeforeMonth(date.year, date.month) + date.day

\* date.weekday(): Monday is 0
weekday(date) == (Ordinal(date) - 1) % 7

\* date + datetime.timedelta(days), days not negative
Tomorrow(date) ==
    IF date.day < DaysInMonth(date.year, date.month)
    THEN Date(date.year, date.month, date.day + 1)
    ELSE IF date.month < 12 THEN Date(date.year, date.month + 1, 1)
    ELSE Date(date.year + 1, 1, 1)

RECURSIVE AddDays(_, _)
AddDays(date, days) == IF days = 0 THEN date ELSE AddDays(Tomorrow(date), days - 1)

\* time.strptime(name, "%A").tm_wday
tm_wday(name) == (CHOOSE n \in DOMAIN WeekDays : WeekDays[n] = name) - 1

\* int(text) of a text of digits
DigitValue(c) == (CHOOSE n \in DOMAIN Digits : Digits[n] = c) - 1

RECURSIVE int(_)
int(text) ==
    IF Len(text) = 1 THEN DigitValue(text[1])
    ELSE 10 * int(SubSeq(text, 1, Len(text) - 1)) + DigitValue(text[Len(text)])

\* A number written with at least two digits ("%02d").
Pad2(n) == IF n < 10 THEN <<"0">> \o str(n) ELSE str(n)

\* datetime.isoformat() of a datetime with a time zone and no seconds:
\* YYYY-MM-DDTHH:MM:00+HH:MM (the years are of four digits).
isoformat(dt) ==
    str(dt.year) \o <<"-">> \o Pad2(dt.month) \o <<"-">> \o Pad2(dt.day) \o <<"T">> \o
    Pad2(dt.hour) \o <<":">> \o Pad2(dt.minute) \o <<":", "0", "0">> \o dt.utcoffset

\* The weekday is taken to be the one after the requested one at the
\* earliest: the date is 1 to 7 days ahead.
CalcArrivalTimeAfterToday(arrival_weekday, arrival_time, utcoffset, today) ==
    LET weekday_int == tm_wday(arrival_weekday)
        next_weekday == AddDays(today, ((weekday_int - weekday(today) - 1) % 7) + 1)
    IN isoformat([year |-> next_weekday.year, month |-> next_weekday.month,
                  day |-> next_weekday.day,
                  hour |-> int(SubSeq(arrival_time, 1, 2)),
                  minute |-> int(SubSeq(arrival_time, 4, 5)),
                  utcoffset |-> utcoffset])

\* IsochroneGenerator._calc_arrival_time (lines 122-135); utcoffset is the
\* offset tz_info has on the date, today what datetime.date.today() gives.
_calc_arrival_time(arrival_weekday, arrival_time, utcoffset, today) ==
    LET weekday_int == tm_wday(arrival_weekday)
        next_weekday == AddDays(today, (1 - weekday(today) + weekday_int - 1) % 7)
    IN isoformat([year |-> next_weekday.year, month |-> next_weekday.month,
                  day |-> next_weekday.day,
                  hour |-> int(SubSeq(arrival_time, 1, 2)),
                  minute |-> int(SubSeq(arrival_time, 4, 5)),
                  utcoffset |-> utcoffset])

\* IsochroneGenerator._parse_arrival_time (lines 207-208): parser.parse reads
\* the fields of the ISO text back.
_parse_arrival_time(arrival_time_iso) ==
    [year |-> int(SubSeq(arrival_time_iso, 1, 4)),
     month |-> int(SubSeq(arrival_time_iso, 6, 7)),
     day |-> int(SubSeq(arrival_time_iso, 9, 10)),
     hour |-> int(SubSeq(arrival_time_iso, 12, 13)),
     minute |-> int(SubSeq(arrival_time_iso, 15, 16)),
     utcoffset |-> SubSeq(arrival_time_iso, 20, Len(arrival_time_iso))]

\* The arrival time _construct_filename has (lines 223-225): the weekday
\* (Monday is 1), the hour and the minute of the parsed arrival time.
ArrivalOf(arrival_time_iso) ==
    LET parsed_arrival_time == _parse_arrival_time(arrival_time_iso)
    IN [weekday |-> weekday(parsed_arrival_time) + 1,
        hour |-> parsed_arrival_time.hour, minute |-> parsed_arrival_time.minute]

\* The arrival times asked for, HH:MM, and the offsets of the time zone.
ArrivalTimes == { <<"1", "8", ":", "0", "0">>, <<"0", "9", ":", "0", "5">>, <<"2", "3", ":", "5", "9">> }

UtcOffsets == { <<"-", "0", "8", ":", "0", "0">>, <<"-", "0", "7", ":", "0", "0">> }

\* The arguments of a call of set_arrival_time, and the day it is made on.
ArrivalRequests ==
    [arrival_weekday : { WeekDays[n] : n \in DOMAIN WeekDays }, arrival_time : ArrivalTimes,
     utcoffset : UtcOffsets, today : Dates]

\* The defaults of IsochroneGenerator.__init__ (lines 36-38): driving,
\* Tuesday, 18:00.
DefaultGenerator ==
    [travel_type |-> <<"driving">>, arrival |-> [weekday |-> 2, hour |-> 18, minute |-> 0]]

\* The calls of _construct_filename that are compared: every name, every
\* travel type, one- and two-digit minutes, two weekdays, and arrival times
\* with one- and two-digit hours and minutes.
FilenameRequests ==
    [name : RawNames, travel_type : TravelTypes, minutes : {5, 15},
     weekday : {2, 3}, hour : {1, 11}, minute : {1, 11}]

\* The generator and the location of a call.
GeneratorOf(req) ==
    [travel_type |-> req.travel_type,
     arrival |-> [weekday |-> req.weekday, hour |-> req.hour, minute |-> req.minute]]

FilenameOf(req) == _construct_filename(GeneratorOf(req), Location(req.name), req.minutes)

(***************************************************************************)
(* isochrone.py: the service's answers and the result.                     *)
(***************************************************************************)
\* A 200 answer of the time-map service: results[0].shapes is a list of
\* shapes, each a shell and holes of lat/lng points.
IsoResults(n) ==
    [kind |-> "dict",
     results |-> << [shapes |-> << [shell |-> << [lat |-> n, lng |-> n + 1] >>,
                                    holes |-> << << [lat |-> n + 2, lng |-> n + 3] >> >>] >>] >>]

\* The JSON body of an error answer: an object without results.
IsoErrorBody == [kind |-> "dict", http_status |-> 429]

\* A 200 answer for a location nothing is reachable from: an empty results
\* list, or no results at all.
IsoEmptyResults == [kind |-> "dict", results |-> << >>]
IsoNoResults == [kind |-> "dict"]

\* The places of the locations (row.geometry, line 355): a place is one
\* number, which stands for its lat and lng.
Coordinates == {1, 2}

\* The 200 answers to a request with the coordinates of a place: one of two
\* results around the place, or none.
AnswersAt(place) == {IsoResults(place), IsoResults(place + 4), IsoEmptyResults, IsoNoResults}

IsoAnswers == UNION { AnswersAt(place) : place \in Coordinates }

\* isochrone.get("results"), taken as a truth value (line 374)
HasResults(d) == "results" \in DOMAIN d /\ d.results # << >>

\* Every point is written as [lat, lng].
RingLatLng(points) == [k \in 1..Len(points) |-> <<points[k].lat, points[k].lng>>]

\* IsochroneGenerator._isochrone_response_to_shape (lines 244-253): every
\* shape becomes its rings, the shell first, every point as [lng, lat].
Ring(points) == [k \in 1..Len(points) |-> <<points[k].lng, points[k].lat>>]

_isochrone_response_to_shape(shapes) ==
    [type |-> "MultiPolygon",
     coordinates |->
        [n \in 1..Len(shapes) |->
            <<Ring(shapes[n].shell)>> \o
            [h \in 1..Len(shapes[n].holes) |-> Ring(shapes[n].holes[h])]]]

\* The shapes of a response converted on its own: rings of two points in
\* either order and of one, shapes with up to two holes.
ApiPoints == {[lat |-> 1, lng |-> 3], [lat |-> 2, lng |-> 4]}

ApiRings ==
    { ring \in UNION { [1..n -> ApiPoints] : n \in 1..2 } :
         \A j, k \in DOMAIN ring : ring[j] = ring[k] => j = k }

ApiShapes == [shell : ApiRings, holes : UNION { [1..n -> ApiRings] : n \in 0..2 }]

ShapeLists == UNION { [1..n -> ApiShapes] : n \in 0..MaxShapes }

\* lines 373-376: the polygon a response gives its location, or None.
Isochrone(d) ==
    IF HasResults(d) THEN _isochrone_response_to_shape(d.results[1].shapes) ELSE None

\* The local r of _generate_isochrone: not yet assigned, or a response.
Unbound == [kind |-> "unbound"]
Response(status_code) == [kind |-> "Response", status_code |-> status_code]

\* What a request ends with: a response with a status code, or no response
\* (0: a timeout or a connection error).
Outcomes == {200, 429, 500, 0}

\* The exception a failed request raises in the try block (lines 276-295):
\* raise_for_status for an error status, requests.post itself otherwise.
RequestError(outcome) == IF outcome = 0 THEN "ConnectionError" ELSE "HTTPError"

\* The entries of the log.
Sleep(seconds) == [op |-> "sleep", arg |-> seconds]
Post(outcome) == [op |-> "post", arg |-> outcome]

\* A constant wait between the attempts.
RetrySecondsConstant(i) == 10 * 2

\* line 302: retry_seconds = 10 * (i + 2)
RetrySeconds(i) == 10 * (i + 2)

\* The names of the locations of the generator: two names with one sanitized
\* form, and another.
LocationNames == { <<"a">>, <<"a", "_">>, <<"-">> }

LocationTables == UNION { [1..n -> LocationNames] : n \in 1..MaxLocations }

\* The travel_minutes argument of generate_isochrones.
TravelMinutes == {15}

\* The files generate_isochrones can name.
IsoFilenames ==
    { _construct_filename(DefaultGenerator, Location(name), minutes) :
         name \in LocationNames, minutes \in TravelMinutes }

(***************************************************************************)
(* join.py: the tables of SpatialJoiner.  Geometry is on a line: a point   *)
(* is a number, a polygon an interval; within is strict (the boundary is   *)
(* not inside).                                                            *)
(***************************************************************************)
\* The points of the voter rows: 1 is inside both polygons, 2 is inside the
\* second and on the boundary of the first.
Point(x) == [kind |-> "Point", x |-> x]

Points == {Point(1), Point(2)}

Polygon(lo, hi) == [lo |-> lo, hi |-> hi]

Polygons == {Polygon(0, 2), Polygon(0, 3)}

\* voter_geometry.within(ballot_box_geometry), line 57
within(point, polygon) == polygon.lo < point.x /\ point.x < polygon.hi

\* A row of voter_addresses: its building_id, its point (None when the
\* address was not resolved) and its count of voters.
VoterRows ==
    [building_id : {"b1", "b2"}, geometry : Points \cup {None}, count_voters : {0, 1}]

VoterTables == UNION { [1..n -> VoterRows] : n \in 0..MaxVoterRows }

PolygonTables == UNION { [1..n -> Polygons] : n \in 0..MaxPolygons }

\* Series.sum()
RECURSIVE Sum(_)
Sum(counts) == IF counts = << >> THEN 0 ELSE Head(counts) + Sum(Tail(counts))

VARIABLES
    addresses_df,          \* Geocoder.addresses_df: the input table
    google_api_key,        \* whether os.environ has GOOGLE_API_KEY
    census_success,        \* cache_dir/census/success: building_id -> file
    census_fail,           \* cache_dir/census/fail
    google_success,        \* cache_dir/google/success
    google_fail,           \* cache_dir/google/fail
    voters,                \* the DuckDB table: a set of rows
    pc,                    \* where the program is
    batch_size,            \* geocode's batch_size argument
    remaining_to_process,  \* geocode's local: the rows to resolve
    batch_start,           \* geocode's loop variable
    tasks,                 \* the tasks of the running batch, in batch order
    error,                 \* the exception geocode raised, or "none"
    resumed,               \* whether this run follows a terminated one
    joined,                \* what geocode returned
    merged,                \* whether addresses_df is the merge of line 164
    locations,             \* IsochroneGenerator.locations: the names, in order
    cache_dir,             \* whether IsochroneGenerator.cache_dir is a directory
    traveltime_keys,       \* whether os.environ has TRAVELTIME_ID and _KEY
    iso_files,             \* the files of cache_dir: filename -> file
    iso_pc,                \* where generate_isochrones is
    travel_minutes,        \* generate_isochrones' argument
    max_retries,           \* generate_isochrones' argument
    idx,                   \* generate_isochrones' loop variable
    attempt,               \* _generate_isochrone's loop variable i
    resp,                  \* _generate_isochrone's local r
    log,                   \* the sleeps and requests made for the location
    isochrone,             \* generate_isochrones' local: the response
    isochrones,            \* the isochrone column of the result
    iso_error,             \* the exception generate_isochrones raised
    coords,                \* the geometry column of locations: the places, in order
    request,               \* the arguments of a call of _construct_filename
    filename,              \* what the call returned
    voter_addresses,       \* SpatialJoiner.voter_addresses
    ballot_box_isochrones, \* SpatialJoiner.ballot_box_isochrones
    summary_pc,            \* where summary is
    within_any_true,       \* summary's local
    total_count_voters,    \* summary's local
    building_addresses,    \* summary's local: the groups not yet visited
    rollup,                \* what summary returned
    id_table,              \* a table whose ids are generated, and its unit_col
    ids,                   \* the address_id and building_id columns made for it
    api_shapes,            \* the argument of a call of _isochrone_response_to_shape
    multipolygon,          \* what the call returned
    arrival_request,       \* the arguments of a call of set_arrival_time, and the day
    arrival_time_iso,      \* IsochroneGenerator.arrival_time_iso
    arrival_filename       \* the cache filename made with that arrival time

\* The variables of the three parts.
geocoder == <<addresses_df, google_api_key, census_success, census_fail, google_success,
              google_fail, voters, pc, batch_size, remaining_to_process, batch_start,
              tasks, error, resumed, joined, merged>>
generator == <<locations, cache_dir, traveltime_keys, iso_files, iso_pc, travel_minutes,
               max_retries, idx, attempt, resp, log, isochrone, isochrones, iso_error,
               coords>>
naming == <<request, filename>>
joiner == <<voter_addresses, ballot_box_isochrones, summary_pc, within_any_true,
            total_count_voters, building_addresses, rollup>>
hashing == <<id_table, ids>>
converting == <<api_shapes, multipolygon>>

timing == <<arrival_request, arrival_time_iso, arrival_filename>>

vars == <<geocoder, generator, naming, joiner, hashing, converting, timing>>

env == <<addresses_df, google_api_key, resumed>>
cache == <<census_success, census_fail, google_success, google_fail>>
run == <<batch_size, remaining_to_process, batch_start>>


(***************************************************************************)
(* Geocoder.__init__ and _init_duckdb: the cache directories exist, the    *)
(* table exists.  The first Geocoder finds both empty.                     *)
(***************************************************************************)
EmptyDir == [id \in BuildingIds |-> Absent]

\* No IsochroneGenerator has been constructed.
NoGenerator ==
    /\ locations = << >>
    /\ cache_dir = FALSE
    /\ traveltime_keys = FALSE
    /\ iso_files = [f \in IsoFilenames |-> Absent]
    /\ iso_pc = "none"
    /\ travel_minutes = 0
    /\ max_retries = 0
    /\ idx = 0
    /\ attempt = 0
    /\ resp = Unbound
    /\ log = << >>
    /\ isochrone = None
    /\ isochrones = << >>
    /\ iso_error = "none"
    /\ coords = << >>

\* _construct_filename is not called on its own.
NoNaming ==
    /\ request = [name |-> << >>]
    /\ filename = << >>

\* No SpatialJoiner has been constructed.
NoJoiner ==
    /\ voter_addresses = << >>
    /\ ballot_box_isochrones = << >>
    /\ summary_pc = "none"
    /\ within_any_true = 0
    /\ total_count_voters = 0
    /\ building_addresses = << >>
    /\ rollup = None

\* _generate_id is not applied on its own.
NoHashing ==
    /\ id_table = None
    /\ ids = << >>

\* _isochrone_response_to_shape is not called on its own.
NoConverting ==
    /\ api_shapes = << >>
    /\ multipolygon = None

\* set_arrival_time is not called on its own.
NoTiming ==
    /\ arrival_request = None
    /\ arrival_time_iso = << >>
    /\ arrival_filename = << >>

\* No Geocoder has been constructed.
NoGeocoder ==
    /\ addresses_df = << >>
    /\ google_api_key = FALSE
    /\ census_success = EmptyDir
    /\ census_fail = EmptyDir
    /\ google_success = EmptyDir
    /\ google_fail = EmptyDir
    /\ voters = {}
    /\ pc = "none"
    /\ batch_size = 1
    /\ remaining_to_process = << >>
    /\ batch_start = 0
    /\ tasks = << >>
    /\ error = "none"
    /\ resumed = FALSE
    /\ joined = << >>
    /\ merged = FALSE

Init ==
    /\ NoGenerator
    /\ NoNaming
    /\ NoJoiner
    /\ NoHashing
    /\ NoConverting
    /\ NoTiming
    /\ addresses_df \in AddressTables
    /\ google_api_key \in BOOLEAN
    /\ census_success = EmptyDir
    /\ census_fail = EmptyDir
    /\ google_success = EmptyDir
    /\ google_fail = EmptyDir
    /\ voters = {}
    /\ pc = "idle"
    /\ batch_size = 1
    /\ remaining_to_process = << >>
    /\ batch_start = 0
    /\ tasks = << >>
    /\ error = "none"
    /\ resumed = FALSE
    /\ joined = << >>
    /\ merged = FALSE

(***************************************************************************)
(* Geocoder.geocode, up to the batch loop.                                 *)
(***************************************************************************)
\* Geocoder._get_existing: SELECT DISTINCT building_id, lat, lng, geocoding_source
_get_existing ==
    { [building_id |-> v.building_id, lat |-> v.lat, lng |-> v.lng,
       geocoding_source |-> v.geocoding_source] : v \in voters }

\* The columns geocode keeps of a row: building_id and the four address columns.
Projected(row) ==
    [building_id |-> building_id(row), street |-> row.street, city |-> row.city,
     state |-> row.state, zip |-> row.zip]

\* DataFrame.drop_duplicates(): the first occurrence of every row is kept.
RECURSIVE drop_duplicates(_)
drop_duplicates(rows) ==
    IF rows = << >> THEN << >>
    ELSE LET front == drop_duplicates(SubSeq(rows, 1, Len(rows) - 1))
             last == rows[Len(rows)]
         IN IF \E i \in 1..Len(front) : front[i] = last THEN front ELSE Append(front, last)

\* geocode, lines 341-351: the rows still to resolve.
Remaining(df, existing) ==
    LET done == { g.building_id : g \in existing }
        NotDone(row) == building_id(row) \notin done
        left == SelectSeq(df, NotDone)
    IN drop_duplicates([i \in 1..Len(left) |-> Projected(left[i])])

\* geocode, lines 331-351: the ids, the stored rows, the rows left.
EnterLoop ==
    /\ \E size \in 1..MaxBatchSize : batch_size' = size
    /\ remaining_to_process' = Remaining(addresses_df, _get_existing)
    /\ batch_start' = 0
    /\ pc' = "loop"
    /\ joined' = << >>
    /\ UNCHANGED <<generator, naming, joiner, hashing, converting, timing, env, merged, cache, voters, tasks, error>>

\* geocode is called on a new Geocoder.
Geocode ==
    /\ pc = "idle"
    /\ EnterLoop

\* geocode is called again on the Geocoder whose earlier call returned.
GeocodeAgain ==
    /\ pc = "done"
    /\ EnterLoop

\* The slice takes the row at its end too.
BatchWithEnd(rows, start, size) ==
    SubSeq(rows, start + 1, IF start + size + 1 < Len(rows) THEN start + size + 1 ELSE Len(rows))

\* geocode, line 354: batch = remaining_to_process.iloc[batch_start : batch_start + batch_size]
Batch(rows, start, size) ==
    SubSeq(rows, start + 1, IF start + size < Len(rows) THEN start + size ELSE Len(rows))

\* A task of executor.map: one call of _geocode_single, not yet started.
NewTask(row) ==
    [row |-> row, pc |-> "queued", via |-> "none", result |-> None, exc |-> "none",
     logged |-> "none", census_calls |-> 0, google_requests |-> 0]

\* geocode, lines 353-373: the loop enters a batch and submits its tasks.
BeginBatch ==
    /\ pc = "loop"
    /\ batch_start < Len(remaining_to_process)
    /\ LET batch == Batch(remaining_to_process, batch_start, batch_size)
       IN tasks' = [i \in 1..Len(batch) |-> NewTask(batch[i])]
    /\ pc' = "batch"
    /\ UNCHANGED <<generator, naming, joiner, hashing, converting, timing, env, merged, cache, voters, run, error, joined>>

(***************************************************************************)
(* The tasks of a batch.  ProcessPoolExecutor(processes) starts the tasks  *)
(* in the order they were submitted and runs at most `processes` of them   *)
(* at a time.                                                              *)
(***************************************************************************)
Finished(t) == t.pc \in {"returned", "raised"}
Started(t) == t.pc # "queued"
Running(t) == Started(t) /\ ~Finished(t)

CanStart(i) ==
    /\ tasks[i].pc = "queued"
    /\ \A j \in 1..(i - 1) : Started(tasks[j])
    /\ Cardinality({ j \in 1..Len(tasks) : Running(tasks[j]) }) < Processes

\* return value
Return(t, value) == [t EXCEPT !.pc = "returned", !.result = value]

\* An exception raised in _geocode_single_google, or by a statement of
\* _geocode_single.  Lines 288-304: the try block holds the census call and the
\* google call that follows a fresh no-match; its handler logs and returns
\* None.  The google call of line 284 is outside the try: what it raises leaves
\* _geocode_single.
Raise(t, exception) ==
    IF t.via = "fresh"
    THEN [t EXCEPT !.pc = "returned", !.result = None, !.logged = exception]
    ELSE [t EXCEPT !.pc = "raised", !.exc = exception]

TaskStep(i, t) ==
    /\ tasks' = [tasks EXCEPT ![i] = t]
    /\ UNCHANGED <<generator, naming, joiner, hashing, converting, timing, env, merged, voters, pc, run, error, joined>>

(***************************************************************************)
(* Geocoder._geocode_single                                                *)
(***************************************************************************)
\* lines 268-281: a task starts; the census success file is looked up and read.
GeocodeSingleStart(i) ==
    /\ pc = "batch"
    /\ i \in 1..Len(tasks)
    /\ CanStart(i)
    /\ LET t == tasks[i]
           file == census_success[t.row.building_id]
       IN TaskStep(i, IF ~Exists(file) THEN [t EXCEPT !.pc = "check_fail"]
                      ELSE IF Decodable(file) THEN Return(t, file)
                      ELSE Raise(t, "JSONDecodeError"))
    /\ UNCHANGED cache

\* The marker is not consulted: the census geocoder is asked again.
GeocodeSingleCheckFailRetries(i) ==
    /\ pc = "batch"
    /\ i \in 1..Len(tasks)
    /\ tasks[i].pc = "check_fail"
    /\ TaskStep(i, [tasks[i] EXCEPT !.pc = "census"])
    /\ UNCHANGED cache

\* lines 283-286: the census failure marker is looked up.
GeocodeSingleCheckFail(i) ==
    /\ pc = "batch"
    /\ i \in 1..Len(tasks)
    /\ tasks[i].pc = "check_fail"
    /\ LET t == tasks[i]
       IN TaskStep(i, IF Exists(census_fail[t.row.building_id])
                      THEN [t EXCEPT !.pc = "google", !.via = "cached"]
                      ELSE [t EXCEPT !.pc = "census"])
    /\ UNCHANGED cache

\* An error of the census geocoder is taken for a no-match: the marker is
\* written and the fallback asked.
GeocodeSingleCensusErrorIsNoMatch(i) ==
    /\ pc = "batch"
    /\ i \in 1..Len(tasks)
    /\ tasks[i].pc = "census"
    /\ LET t == [tasks[i] EXCEPT !.census_calls = @ + 1, !.via = "fresh"]
           id == t.row.building_id
       IN \E result \in CensusAnswers \cup {None} :
             IF Truthy(result)
             THEN /\ census_success' = OpenForWrite(census_success, id)
                  /\ TaskStep(i, [t EXCEPT !.pc = "dump_census_success", !.result = result])
                  /\ UNCHANGED <<census_fail, google_success, google_fail>>
             ELSE /\ census_fail' = OpenForWrite(census_fail, id)
                  /\ TaskStep(i, [t EXCEPT !.pc = "dump_census_fail",
                                           !.logged = IF result = None THEN "CensusError" ELSE "none"])
                  /\ UNCHANGED <<census_success, google_success, google_fail>>

\* After a no-match the fallback is asked without a marker being written.
GeocodeSingleCensusNoMarker(i) ==
    /\ pc = "batch"
    /\ i \in 1..Len(tasks)
    /\ tasks[i].pc = "census"
    /\ LET t == [tasks[i] EXCEPT !.census_calls = @ + 1, !.via = "fresh"]
           id == t.row.building_id
       IN \/ /\ TaskStep(i, Raise(t, "CensusError"))
             /\ UNCHANGED cache
          \/ \E result \in CensusAnswers :
                IF Truthy(result)
                THEN /\ census_success' = OpenForWrite(census_success, id)
                     /\ TaskStep(i, [t EXCEPT !.pc = "dump_census_success", !.result = result])
                     /\ UNCHANGED <<census_fail, google_success, google_fail>>
                ELSE /\ TaskStep(i, [t EXCEPT !.pc = "google"])
                     /\ UNCHANGED cache

\* lines 288-297 and 302-304: cg.onelineaddress(addr) raises, or answers; the
\* file the answer goes to is opened for writing.
GeocodeSingleCensus(i) ==
    /\ pc = "batch"
    /\ i \in 1..Len(tasks)
    /\ tasks[i].pc = "census"
    /\ LET t == [tasks[i] EXCEPT !.census_calls = @ + 1, !.via = "fresh"]
           id == t.row.building_id
       IN \/ /\ TaskStep(i, Raise(t, "CensusError"))
             /\ UNCHANGED cache
          \/ \E result \in CensusAnswers :
                IF Truthy(result)
                THEN /\ census_success' = OpenForWrite(census_success, id)
                     /\ TaskStep(i, [t EXCEPT !.pc = "dump_census_success", !.result = result])
                     /\ UNCHANGED <<census_fail, google_success, google_fail>>
                ELSE /\ census_fail' = OpenForWrite(census_fail, id)
                     /\ TaskStep(i, [t EXCEPT !.pc = "dump_census_fail"])
                     /\ UNCHANGED <<census_success, google_success, google_fail>>

\* lines 292-294: json.dump(result, f); return result
GeocodeSingleDumpSuccess(i) ==
    /\ pc = "batch"
    /\ i \in 1..Len(tasks)
    /\ tasks[i].pc = "dump_census_success"
    /\ LET t == tasks[i]
       IN /\ census_success' = Dump(census_success, t.row.building_id, t.result)
          /\ TaskStep(i, Return(t, t.result))
    /\ UNCHANGED <<census_fail, google_success, google_fail>>

\* lines 296-300: json.dump(None, f); the fallback is called inside the try.
GeocodeSingleDumpFail(i) ==
    /\ pc = "batch"
    /\ i \in 1..Len(tasks)
    /\ tasks[i].pc = "dump_census_fail"
    /\ LET t == tasks[i]
       IN /\ census_fail' = Dump(census_fail, t.row.building_id, None)
          /\ TaskStep(i, [t EXCEPT !.pc = "google"])
    /\ UNCHANGED <<census_success, google_success, google_fail>>

(***************************************************************************)
(* Geocoder._geocode_single_google                                         *)
(***************************************************************************)
\* lines 201-210: the credential is read, then the google success file is
\* looked up and read.
GeocodeSingleGoogleStart(i) ==
    /\ pc = "batch"
    /\ i \in 1..Len(tasks)
    /\ tasks[i].pc = "google"
    /\ LET t == tasks[i]
           file == google_success[t.row.building_id]
       IN TaskStep(i, IF ~google_api_key THEN Raise(t, "ValueError")
                      ELSE IF ~Exists(file) THEN [t EXCEPT !.pc = "google_check_fail"]
                      ELSE IF Decodable(file) THEN Return(t, file)
                      ELSE Raise(t, "JSONDecodeError"))
    /\ UNCHANGED cache

\* lines 212-213: the google failure marker is looked up.
GeocodeSingleGoogleCheckFail(i) ==
    /\ pc = "batch"
    /\ i \in 1..Len(tasks)
    /\ tasks[i].pc = "google_check_fail"
    /\ LET t == tasks[i]
       IN TaskStep(i, IF Exists(google_fail[t.row.building_id])
                      THEN Return(t, None)
                      ELSE [t EXCEPT !.pc = "google_request"])
    /\ UNCHANGED cache

\* lines 215-233: requests.get and raise_for_status raise, or the service
\* answers; the file the answer goes to is opened for writing.
GeocodeSingleGoogleRequest(i) ==
    /\ pc = "batch"
    /\ i \in 1..Len(tasks)
    /\ tasks[i].pc = "google_request"
    /\ LET t == [tasks[i] EXCEPT !.google_requests = @ + 1]
           id == t.row.building_id
       IN \/ /\ TaskStep(i, Raise(t, "RequestException"))
             /\ UNCHANGED cache
          \/ \E r_json \in GoogleAnswers :
                IF r_json.status = "OK"
                THEN /\ google_success' = OpenForWrite(google_success, id)
                     /\ TaskStep(i, [t EXCEPT !.pc = "dump_google_success", !.result = r_json])
                     /\ UNCHANGED <<census_success, census_fail, google_fail>>
                ELSE /\ google_fail' = OpenForWrite(google_fail, id)
                     /\ TaskStep(i, [t EXCEPT !.pc = "dump_google_fail"])
                     /\ UNCHANGED <<census_success, census_fail, google_success>>

\* lines 229-231: json.dump(r_json, f, indent=4); return r_json
GeocodeSingleGoogleDumpSuccess(i) ==
    /\ pc = "batch"
    /\ i \in 1..Len(tasks)
    /\ tasks[i].pc = "dump_google_success"
    /\ LET t == tasks[i]
       IN /\ google_success' = Dump(google_success, t.row.building_id, t.result)
          /\ TaskStep(i, Return(t, t.result))
    /\ UNCHANGED <<census_success, census_fail, google_fail>>

\* lines 233-235: json.dump(None, f); return None
GeocodeSingleGoogleDumpFail(i) ==
    /\ pc = "batch"
    /\ i \in 1..Len(tasks)
    /\ tasks[i].pc = "dump_google_fail"
    /\ LET t == tasks[i]
       IN /\ google_fail' = Dump(google_fail, t.row.building_id, None)
          /\ TaskStep(i, Return(t, None))
    /\ UNCHANGED <<census_success, census_fail, google_success>>

(***************************************************************************)
(* Geocoder.geocode: the end of a batch.                                   *)
(***************************************************************************)
\* The two tags are exchanged.
GeocodedRowTagsExchanged(row, r) ==
    [building_id |-> row.building_id,
     street_address |-> row.street,
     city |-> row.city,
     state |-> row.state,
     zip_code |-> row.zip,
     lat |-> IF IsDict(r) THEN r.results[1].geometry.location.lat
             ELSE r.items[1].coordinates.y,
     lng |-> IF IsDict(r) THEN r.results[1].geometry.location.lng
             ELSE r.items[1].coordinates.x,
     geocoding_source |-> IF IsDict(r) THEN "census" ELSE "google"]

\* lines 375-393: one table row per task whose result is truthy; the layout
\* the coordinates are read from is chosen by isinstance(r, dict).
GeocodedRow(row, r) ==
    [building_id |-> row.building_id,
     street_address |-> row.street,
     city |-> row.city,
     state |-> row.state,
     zip_code |-> row.zip,
     lat |-> IF IsDict(r) THEN r.results[1].geometry.location.lat
             ELSE r.items[1].coordinates.y,
     lng |-> IF IsDict(r) THEN r.results[1].geometry.location.lng
             ELSE r.items[1].coordinates.x,
     geocoding_source |-> IF IsDict(r) THEN "google" ELSE "census"]

\* The results are taken in another order than the rows.
GeocodedBatchResultsReversed(ts) ==
    LET zipped == [i \in 1..Len(ts) |->
                      [row |-> ts[i].row, result |-> ts[Len(ts) + 1 - i].result]]
        Resolved(t) == Truthy(t.result)
        kept == SelectSeq(zipped, Resolved)
    IN [i \in 1..Len(kept) |-> GeocodedRow(kept[i].row, kept[i].result)]

\* lines 375-391: the rows of the batch, zipped with the results in the
\* order executor.map gives them, which is the order of the rows.
GeocodedBatch(ts) ==
    LET Resolved(t) == Truthy(t.result)
        kept == SelectSeq(ts, Resolved)
    IN [i \in 1..Len(kept) |-> GeocodedRow(kept[i].row, kept[i].result)]

\* A table without the primary key: nothing is rejected.
NoPrimaryKey(table, rows) == FALSE

\* The table's PRIMARY KEY (line 98): an append that would put two rows with
\* one building_id into the table is rejected as a whole.
ViolatesPrimaryKey(table, rows) ==
    \/ \E i \in 1..Len(rows) : \E v \in table : v.building_id = rows[i].building_id
    \/ \E i, j \in 1..Len(rows) : i # j /\ rows[i].building_id = rows[j].building_id

\* The rows are appended as soon as one task has returned: the batch is not
\* waited for.
AppendBatchEarly ==
    /\ pc = "batch"
    /\ \E i \in 1..Len(tasks) : tasks[i].pc = "returned"
    /\ LET geocoded_batch == GeocodedBatch(tasks)
       IN /\ geocoded_batch # << >>
          /\ ~ViolatesPrimaryKey(voters, geocoded_batch)
          /\ voters' = voters \cup { geocoded_batch[i] : i \in 1..Len(geocoded_batch) }
          /\ batch_start' = batch_start + batch_size
          /\ pc' = "loop"
          /\ UNCHANGED error
    /\ tasks' = << >>
    /\ UNCHANGED <<generator, naming, joiner, hashing, converting, timing, env, merged, cache, batch_size, remaining_to_process, joined>>

\* lines 375-400: every task has returned; the resolved rows are appended and
\* committed and the loop goes on, or the append raises and geocode with it.
\* A batch with no resolved row makes pd.DataFrame([]) a frame without
\* columns; whether conn.append takes such a frame depends on the DuckDB
\* build, so both outcomes are allowed.
AppendBatch ==
    /\ pc = "batch"
    /\ \A i \in 1..Len(tasks) : tasks[i].pc = "returned"
    /\ LET geocoded_batch == GeocodedBatch(tasks)
       IN \/ /\ geocoded_batch # << >>
             /\ ~ViolatesPrimaryKey(voters, geocoded_batch)
             /\ voters' = voters \cup { geocoded_batch[i] : i \in 1..Len(geocoded_batch) }
             /\ batch_start' = batch_start + batch_size
             /\ pc' = "loop"
             /\ UNCHANGED error
          \/ /\ geocoded_batch # << >>
             /\ ViolatesPrimaryKey(voters, geocoded_batch)
             /\ pc' = "raised"
             /\ error' = "ConstraintException"
             /\ UNCHANGED <<voters, batch_start>>
          \/ /\ geocoded_batch = << >>
             /\ batch_start' = batch_start + batch_size
             /\ pc' = "loop"
             /\ UNCHANGED <<voters, error>>
          \/ /\ geocoded_batch = << >>
             /\ pc' = "raised"
             /\ error' = "InvalidInputException"
             /\ UNCHANGED <<voters, batch_start>>
    /\ tasks' = << >>
    /\ UNCHANGED <<generator, naming, joiner, hashing, converting, timing, env, merged, cache, batch_size, remaining_to_process, joined>>

\* lines 359-373: list(executor.map(...)) yields the results in task order and
\* re-raises the exception of the first task that raised; leaving the with
\* block waits for the running tasks and drops the ones not started.
MapRaises ==
    /\ pc = "batch"
    /\ \E i \in 1..Len(tasks) :
          /\ tasks[i].pc = "raised"
          /\ \A j \in 1..(i - 1) : tasks[j].pc = "returned"
          /\ error' = tasks[i].exc
    /\ \A j \in 1..Len(tasks) : ~Running(tasks[j])
    /\ pc' = "raised"
    /\ tasks' = << >>
    /\ UNCHANGED <<generator, naming, joiner, hashing, converting, timing, env, merged, cache, voters, run, joined>>

\* The rows of a query result, in some order.
RECURSIVE SetToSeq(_)
SetToSeq(set) ==
    IF set = {} THEN << >>
    ELSE LET x == CHOOSE x \in set : TRUE IN <<x>> \o SetToSeq(set \ {x})

\* merge(geocoded, on="building_id", how="inner"): the rows without a match
\* are dropped.
InnerJoin(df, geocoded) ==
    LET Matches(row) == SetToSeq({ g \in geocoded : g.building_id = building_id(row) })
        Merged(row) ==
            [k \in 1..Len(Matches(row)) |->
                [row |-> row, found |-> TRUE, lat |-> Matches(row)[k].lat,
                 lng |-> Matches(row)[k].lng,
                 geocoding_source |-> Matches(row)[k].geocoding_source]]
    IN concat([i \in 1..Len(df) |-> Merged(df[i])])

\* Geocoder._join_existing (lines 163-170): addresses_df.merge(geocoded,
\* on="building_id", how="left") has one row for every match of an input row
\* and one row, with empty coordinates, for an input row without a match.
_join_existing(df, geocoded) ==
    LET Matches(row) == SetToSeq({ g \in geocoded : g.building_id = building_id(row) })
        Merged(row) ==
            IF Matches(row) = << >>
            THEN << [row |-> row, found |-> FALSE] >>
            ELSE [k \in 1..Len(Matches(row)) |->
                    [row |-> row, found |-> TRUE, lat |-> Matches(row)[k].lat,
                     lng |-> Matches(row)[k].lng,
                     geocoding_source |-> Matches(row)[k].geocoding_source]]
    IN concat([i \in 1..Len(df) |-> Merged(df[i])])

\* geocode, line 402: the loop is over and _join_existing is called.  Line 164
\* stores the merge in self.addresses_df.  On a Geocoder whose addresses_df is
\* already a merge, both frames have the columns lat, lng and
\* geocoding_source: the merge names them lat_x, lat_y, ..., and
\* self.addresses_df["lng"] (line 167) raises KeyError.
JoinExisting ==
    /\ pc = "loop"
    /\ batch_start >= Len(remaining_to_process)
    /\ IF merged
       THEN /\ pc' = "raised"
            /\ error' = "KeyError"
            /\ UNCHANGED joined
       ELSE /\ joined' = _join_existing(addresses_df, _get_existing)
            /\ pc' = "done"
            /\ UNCHANGED error
    /\ merged' = TRUE
    /\ UNCHANGED <<generator, naming, joiner, hashing, converting, timing, env, cache, voters, run, tasks>>

(***************************************************************************)
(* The environment: the process is terminated during geocode, and the      *)
(* program is run again over the same cache directory and database.        *)
(***************************************************************************)
\* The process and its workers are killed: its locals are gone; the files,
\* also those opened for writing, and the table stay as they are.
Terminate ==
    /\ pc \in {"loop", "batch"}
    /\ pc' = "killed"
    /\ tasks' = << >>
    /\ batch_size' = 1
    /\ remaining_to_process' = << >>
    /\ batch_start' = 0
    /\ UNCHANGED <<generator, naming, joiner, hashing, converting, timing, env, merged, cache, voters, error, joined>>

\* The program is run again on its address table: a new Geocoder is
\* constructed (lines 48-72) over the existing cache directory and table;
\* mkdir(exist_ok=True) and CREATE TABLE IF NOT EXISTS keep what is there.
\* The credential may have been set or unset meanwhile.  (A Geocoder whose
\* geocode raised is not called again: the next call is on a new one.)
NewGeocoder ==
    /\ pc \in {"done", "raised", "killed"}
    /\ addresses_df' = addresses_df
    /\ google_api_key' \in BOOLEAN
    /\ resumed' = (pc = "killed")
    /\ pc' = "idle"
    /\ batch_size' = 1
    /\ remaining_to_process' = << >>
    /\ batch_start' = 0
    /\ tasks' = << >>
    /\ error' = "none"
    /\ joined' = << >>
    /\ merged' = FALSE
    /\ UNCHANGED <<generator, naming, joiner, hashing, converting, timing, cache, voters>>

Next ==
    \/ Geocode
    \/ BeginBatch
    \/ \E i \in 1..MaxBatchSize :
          \/ GeocodeSingleStart(i)
          \/ GeocodeSingleCheckFail(i)
          \/ GeocodeSingleCensus(i)
          \/ GeocodeSingleDumpSuccess(i)
          \/ GeocodeSingleDumpFail(i)
          \/ GeocodeSingleGoogleStart(i)
          \/ GeocodeSingleGoogleCheckFail(i)
          \/ GeocodeSingleGoogleRequest(i)
          \/ GeocodeSingleGoogleDumpSuccess(i)
          \/ GeocodeSingleGoogleDumpFail(i)
    \/ AppendBatch
    \/ MapRaises
    \/ JoinExisting
    \/ Terminate
    \/ NewGeocoder

Spec == Init /\ [][Next]_vars

\* The program that also calls geocode a second time on one Geocoder.
NextAgain ==
    \/ Next
    \/ GeocodeAgain

SpecAgain == Init /\ [][NextAgain]_vars

(***************************************************************************)
(* IsochroneGenerator.  The generator has the defaults of __init__; its    *)
(* table of locations, its cache_dir and the credentials are chosen.       *)
(***************************************************************************)
IsoInit ==
    /\ NoGeocoder
    /\ NoNaming
    /\ NoJoiner
    /\ NoHashing
    /\ NoConverting
    /\ NoTiming
    /\ locations \in LocationTables
    /\ cache_dir \in BOOLEAN
    /\ traveltime_keys \in BOOLEAN
    /\ iso_files = [f \in IsoFilenames |-> Absent]
    /\ iso_pc = "idle"
    /\ travel_minutes = 0
    /\ max_retries = 0
    /\ idx = 0
    /\ attempt = 0
    /\ resp = Unbound
    /\ log = << >>
    /\ isochrone = None
    /\ isochrones = << >>
    /\ iso_error = "none"
    /\ coords = [k \in DOMAIN locations |-> 1]

\* The locals of _generate_isochrone and of the loop body.
locals == <<attempt, resp, log, isochrone>>
\* What a call of generate_isochrones does not change.
given == <<locations, coords, cache_dir, traveltime_keys, travel_minutes, max_retries>>

\* Every location has the cache file of the first.
FilenameOfFirstLocation ==
    _construct_filename(DefaultGenerator, Location(locations[1]), travel_minutes)

\* line 359: the cache file of the location at idx
Filename == _construct_filename(DefaultGenerator, Location(locations[idx]), travel_minutes)

\* generate_isochrones raises.
IsoRaise(exception) ==
    /\ iso_pc' = "raised"
    /\ iso_error' = exception

\* lines 333-352: the credentials are read (ValueError without them), the
\* cache directory is made, the result starts as the locations with an empty
\* isochrone column.
GenerateIsochrones ==
    /\ iso_pc = "idle"
    /\ \E minutes \in TravelMinutes : travel_minutes' = minutes
    /\ \E retries \in 1..MaxRetries : max_retries' = retries
    /\ IF ~traveltime_keys
       THEN /\ IsoRaise("ValueError")
            /\ UNCHANGED <<idx, isochrones>>
       ELSE /\ iso_pc' = "lookup"
            /\ idx' = 1
            /\ isochrones' = [k \in 1..Len(locations) |-> None]
            /\ UNCHANGED iso_error
    /\ UNCHANGED <<geocoder, naming, joiner, hashing, converting, timing, locations, coords, cache_dir, traveltime_keys, iso_files, locals>>

\* The cache is not consulted: the isochrone is always generated.
LookupIgnoresCache ==
    /\ iso_pc = "lookup"
    /\ iso_pc' = "sleep"
    /\ UNCHANGED <<geocoder, naming, joiner, hashing, converting, timing, given, iso_files, idx, locals, isochrones, iso_error>>

\* The file is looked up whether or not there is a cache directory.
LookupWithoutCacheDir ==
    /\ iso_pc = "lookup"
    /\ IF Exists(iso_files[Filename])
       THEN IF Decodable(iso_files[Filename])
            THEN /\ isochrone' = iso_files[Filename]
                 /\ iso_pc' = "shape"
                 /\ UNCHANGED iso_error
            ELSE /\ IsoRaise("JSONDecodeError")
                 /\ UNCHANGED isochrone
       ELSE /\ iso_pc' = "sleep"
            /\ UNCHANGED <<isochrone, iso_error>>
    /\ UNCHANGED <<geocoder, naming, joiner, hashing, converting, timing, given, iso_files, idx, attempt, resp, log, isochrones>>

\* lines 355-366: the cache file of the location is looked up and read.
Lookup ==
    /\ iso_pc = "lookup"
    /\ IF cache_dir /\ Exists(iso_files[Filename])
       THEN IF Decodable(iso_files[Filename])
            THEN /\ isochrone' = iso_files[Filename]
                 /\ iso_pc' = "shape"
                 /\ UNCHANGED iso_error
            ELSE /\ IsoRaise("JSONDecodeError")
                 /\ UNCHANGED isochrone
       ELSE /\ iso_pc' = "sleep"
            /\ UNCHANGED <<isochrone, iso_error>>
    /\ UNCHANGED <<geocoder, naming, joiner, hashing, converting, timing, given, iso_files, idx, attempt, resp, log, isochrones>>

\* The request is made at once.
GenerateIsochroneNoDelay ==
    /\ iso_pc = "sleep"
    /\ attempt' = 0
    /\ resp' = Unbound
    /\ iso_pc' = "post"
    /\ UNCHANGED <<geocoder, naming, joiner, hashing, converting, timing, given, iso_files, idx, log, isochrone, isochrones, iso_error>>

\* _generate_isochrone, line 272: time.sleep(5), then the loop is entered.
GenerateIsochroneSleep ==
    /\ iso_pc = "sleep"
    /\ log' = Append(log, Sleep(5))
    /\ attempt' = 0
    /\ resp' = Unbound
    /\ iso_pc' = "post"
    /\ UNCHANGED <<geocoder, naming, joiner, hashing, converting, timing, given, iso_files, idx, isochrone, isochrones, iso_error>>

\* lines 275-308: one attempt.  A response is assigned to r; an error status
\* makes raise_for_status raise; without a response requests.post raises
\* and r stays what it was.  The handler reads r.status_code: r is unbound
\* when the first attempt had no response (UnboundLocalError), and is the
\* earlier response when a later one had none.
GenerateIsochronePost ==
    /\ iso_pc = "post"
    /\ \E outcome \in Outcomes :
          LET r == IF outcome = 0 THEN resp ELSE Response(outcome)
          IN /\ resp' = r
             /\ log' = Append(log, Post(outcome))
             /\ IF outcome = 200
                THEN /\ iso_pc' = "json"
                     /\ UNCHANGED iso_error
                ELSE IF r = Unbound
                THEN IsoRaise("UnboundLocalError")
                ELSE IF r.status_code = 429 /\ attempt < max_retries
                THEN /\ iso_pc' = "backoff"
                     /\ UNCHANGED iso_error
                ELSE IsoRaise(RequestError(outcome))
    /\ UNCHANGED <<geocoder, naming, joiner, hashing, converting, timing, given, iso_files, idx, attempt, isochrone, isochrones>>

\* lines 302-304 and 274: time.sleep(retry_seconds), then the next turn of
\* the loop, or its end when i was max_retries - 1.
GenerateIsochroneBackoff ==
    /\ iso_pc = "backoff"
    /\ log' = Append(log, Sleep(RetrySeconds(attempt)))
    /\ attempt' = attempt + 1
    /\ iso_pc' = IF attempt + 1 < max_retries THEN "post" ELSE "json"
    /\ UNCHANGED <<geocoder, naming, joiner, hashing, converting, timing, given, iso_files, idx, resp, isochrone, isochrones, iso_error>>

\* lines 310-311 and 368-370: isochrone = r.json() of whatever r is after the
\* loop: the body of a 200 response, or of the last error response, which is
\* JSON or not (then r.json() raises requests.exceptions.JSONDecodeError,
\* which is a RequestException).  With a
\* cache directory the file is opened for writing.
GenerateIsochroneJson ==
    /\ iso_pc = "json"
    /\ \/ /\ \E body \in IF resp.status_code = 200 THEN AnswersAt(coords[idx]) ELSE {IsoErrorBody} :
                isochrone' = body
          /\ IF cache_dir
             THEN /\ iso_files' = OpenForWrite(iso_files, Filename)
                  /\ iso_pc' = "dump"
             ELSE /\ iso_pc' = "shape"
                  /\ UNCHANGED iso_files
          /\ UNCHANGED iso_error
       \/ /\ resp.status_code # 200
          /\ IsoRaise("RequestsJSONDecodeError")
          /\ UNCHANGED <<isochrone, iso_files>>
    /\ UNCHANGED <<geocoder, naming, joiner, hashing, converting, timing, given, idx, attempt, resp, log, isochrones>>

\* line 371: json.dump(isochrone, f, indent=4)
GenerateIsochronesDump ==
    /\ iso_pc = "dump"
    /\ iso_files' = Dump(iso_files, Filename, isochrone)
    /\ iso_pc' = "shape"
    /\ UNCHANGED <<geocoder, naming, joiner, hashing, converting, timing, given, idx, locals, isochrones, iso_error>>

\* The first result is read without asking whether there is one: IndexError.
GenerateIsochronesShapeUnguarded ==
    /\ iso_pc = "shape"
    /\ IF HasResults(isochrone)
       THEN /\ isochrones' = [isochrones EXCEPT ![idx] = Isochrone(isochrone)]
            /\ IF idx < Len(locations)
               THEN /\ idx' = idx + 1
                    /\ iso_pc' = "lookup"
               ELSE /\ iso_pc' = "done"
                    /\ UNCHANGED idx
            /\ UNCHANGED iso_error
       ELSE /\ IsoRaise("IndexError")
            /\ UNCHANGED <<idx, isochrones>>
    /\ attempt' = 0
    /\ resp' = Unbound
    /\ log' = << >>
    /\ isochrone' = None
    /\ UNCHANGED <<geocoder, naming, joiner, hashing, converting, timing, given, iso_files>>

\* lines 373-382: the polygon of the response goes into the result; the loop
\* goes to the next location, or the result is returned.
GenerateIsochronesShape ==
    /\ iso_pc = "shape"
    /\ isochrones' = IF HasResults(isochrone)
                     THEN [isochrones EXCEPT ![idx] = Isochrone(isochrone)]
                     ELSE isochrones
    /\ IF idx < Len(locations)
       THEN /\ idx' = idx + 1
            /\ iso_pc' = "lookup"
       ELSE /\ iso_pc' = "done"
            /\ UNCHANGED idx
    /\ attempt' = 0
    /\ resp' = Unbound
    /\ log' = << >>
    /\ isochrone' = None
    /\ UNCHANGED <<geocoder, naming, joiner, hashing, converting, timing, given, iso_files, iso_error>>

\* The process is killed during generate_isochrones: its locals are gone, the
\* files stay as they are.
IsoTerminate ==
    /\ iso_pc \in {"lookup", "sleep", "post", "backoff", "json", "dump", "shape"}
    /\ iso_pc' = "killed"
    /\ idx' = 0
    /\ attempt' = 0
    /\ resp' = Unbound
    /\ log' = << >>
    /\ isochrone' = None
    /\ isochrones' = << >>
    /\ UNCHANGED <<geocoder, naming, joiner, hashing, converting, timing, given, iso_files, iso_error>>

\* The program is run again on its locations, with the cache directory it
\* had; the credentials may have been set or unset.
NewIsochroneGenerator ==
    /\ iso_pc \in {"done", "raised", "killed"}
    /\ iso_pc' = "idle"
    /\ traveltime_keys' \in BOOLEAN
    /\ idx' = 0
    /\ attempt' = 0
    /\ resp' = Unbound
    /\ log' = << >>
    /\ isochrone' = None
    /\ isochrones' = << >>
    /\ iso_error' = "none"
    /\ UNCHANGED <<geocoder, naming, joiner, hashing, converting, timing, locations, coords, cache_dir, iso_files, travel_minutes,
                   max_retries>>

\* The steps of generate_isochrones.
IsoProgram ==
    \/ GenerateIsochrones
    \/ Lookup
    \/ GenerateIsochroneSleep
    \/ GenerateIsochronePost
    \/ GenerateIsochroneBackoff
    \/ GenerateIsochroneJson
    \/ GenerateIsochronesDump
    \/ GenerateIsochronesShape

IsoNext ==
    \/ IsoProgram
    \/ IsoTerminate
    \/ NewIsochroneGenerator

IsoSpec == IsoInit /\ [][IsoNext]_vars

\* The process is not stopped for ever in the middle of a call: a sleep
\* ends, and a request ends with a response or with its timeout (line 293).
IsoLive == IsoInit /\ [][IsoNext]_vars /\ WF_vars(IsoProgram)

(***************************************************************************)
(* IsochroneGenerator with set_cache_dir: between two calls of             *)
(* generate_isochrones the cache directory is set, or set to None.         *)
(***************************************************************************)
\* set_cache_dir (lines 167-175)
SetCacheDir ==
    /\ iso_pc = "idle"
    /\ cache_dir' = ~cache_dir
    /\ UNCHANGED <<geocoder, naming, joiner, hashing, converting, timing, locations, coords,
                   traveltime_keys, iso_files, iso_pc, travel_minutes, max_retries, idx,
                   locals, isochrones, iso_error>>

CacheDirNext ==
    \/ IsoNext
    \/ SetCacheDir

CacheDirSpec == IsoInit /\ [][CacheDirNext]_vars

(***************************************************************************)
(* IsochroneGenerator on locations at places of their own: the geometry    *)
(* column is chosen too.  The places are alike, so the first location is   *)
(* taken to be at the first.                                               *)
(***************************************************************************)
PlaceInit ==
    /\ NoGeocoder
    /\ NoNaming
    /\ NoJoiner
    /\ NoHashing
    /\ NoConverting
    /\ NoTiming
    /\ locations \in LocationTables
    /\ coords \in { places \in [DOMAIN locations -> Coordinates] : places[1] = 1 }
    /\ cache_dir \in BOOLEAN
    /\ traveltime_keys = TRUE
    /\ iso_files = [f \in IsoFilenames |-> Absent]
    /\ iso_pc = "idle"
    /\ travel_minutes = 0
    /\ max_retries = 0
    /\ idx = 0
    /\ attempt = 0
    /\ resp = Unbound
    /\ log = << >>
    /\ isochrone = None
    /\ isochrones = << >>
    /\ iso_error = "none"

PlaceSpec == PlaceInit /\ [][IsoNext]_vars

(***************************************************************************)
(* _construct_filename on its own: a call is chosen and made.              *)
(***************************************************************************)
NameInit ==
    /\ NoGeocoder
    /\ NoGenerator
    /\ NoJoiner
    /\ NoHashing
    /\ NoConverting
    /\ NoTiming
    /\ request \in FilenameRequests
    /\ filename = << >>

ConstructFilename ==
    /\ filename = << >>
    /\ filename' = FilenameOf(request)
    /\ UNCHANGED <<geocoder, generator, joiner, hashing, converting, timing, request>>

NameNext == ConstructFilename

NameSpec == NameInit /\ [][NameNext]_vars

(***************************************************************************)
(* set_arrival_time and the cache filename made after it: the arguments    *)
(* and the day of the call are chosen.                                     *)
(***************************************************************************)
ArrivalInit ==
    /\ NoGeocoder
    /\ NoGenerator
    /\ NoNaming
    /\ NoJoiner
    /\ NoHashing
    /\ NoConverting
    /\ arrival_request \in ArrivalRequests
    /\ arrival_time_iso = << >>
    /\ arrival_filename = << >>

\* lines 163-165: self.arrival_time_iso = self._calc_arrival_time(...)
SetArrivalTime ==
    /\ arrival_time_iso = << >>
    /\ arrival_time_iso' =
          _calc_arrival_time(arrival_request.arrival_weekday, arrival_request.arrival_time,
                             arrival_request.utcoffset, arrival_request.today)
    /\ UNCHANGED <<geocoder, generator, naming, joiner, hashing, converting, arrival_request,
                   arrival_filename>>

\* _construct_filename for a location named a and 15 minutes, on a generator
\* with the default travel type.
ConstructArrivalFilename ==
    /\ arrival_time_iso # << >>
    /\ arrival_filename = << >>
    /\ arrival_filename' =
          _construct_filename([travel_type |-> <<"driving">>,
                               arrival |-> ArrivalOf(arrival_time_iso)],
                              Location(<<"a">>), 15)
    /\ UNCHANGED <<geocoder, generator, naming, joiner, hashing, converting, arrival_request,
                   arrival_time_iso>>

ArrivalNext ==
    \/ SetArrivalTime
    \/ ConstructArrivalFilename

ArrivalSpec == ArrivalInit /\ [][ArrivalNext]_vars

(***************************************************************************)
(* _isochrone_response_to_shape on its own: a list of shapes is chosen and *)
(* converted.                                                              *)
(***************************************************************************)
ShapeInit ==
    /\ NoGeocoder
    /\ NoGenerator
    /\ NoNaming
    /\ NoJoiner
    /\ NoHashing
    /\ NoTiming
    /\ api_shapes \in ShapeLists
    /\ multipolygon = None

IsochroneResponseToShape ==
    /\ multipolygon = None
    /\ multipolygon' = _isochrone_response_to_shape(api_shapes)
    /\ UNCHANGED <<geocoder, generator, naming, joiner, hashing, timing, api_shapes>>

ShapeNext == IsochroneResponseToShape

ShapeSpec == ShapeInit /\ [][ShapeNext]_vars

(***************************************************************************)
(* _generate_id on its own: geocode's first two statements on a table.     *)
(***************************************************************************)
IdInit ==
    /\ NoGeocoder
    /\ NoGenerator
    /\ NoNaming
    /\ NoJoiner
    /\ NoConverting
    /\ NoTiming
    /\ id_table \in IdTables
    /\ ids = << >>

\* The address_id is made as the building_id is.
GenerateIdsWithoutUnit ==
    /\ ids = << >>
    /\ ids' = [k \in DOMAIN id_table.rows |->
                  [address_id |-> _generate_id(id_table.rows[k], FALSE, id_table.unit_col),
                   building_id |-> _generate_id(id_table.rows[k], FALSE, id_table.unit_col)]]
    /\ UNCHANGED <<geocoder, generator, naming, joiner, converting, timing, id_table>>

\* lines 332-333: the address_id and building_id columns
GenerateIds ==
    /\ ids = << >>
    /\ ids' = [k \in DOMAIN id_table.rows |->
                  [address_id |-> _generate_id(id_table.rows[k], TRUE, id_table.unit_col),
                   building_id |-> _generate_id(id_table.rows[k], FALSE, id_table.unit_col)]]
    /\ UNCHANGED <<geocoder, generator, naming, joiner, converting, timing, id_table>>

IdNext == GenerateIds

IdSpec == IdInit /\ [][IdNext]_vars

(***************************************************************************)
(* SpatialJoiner.summary.  The joiner is constructed on a table of voter   *)
(* rows and a table of isochrone polygons; count_voters_col is the rows'   *)
(* count_voters.                                                           *)
(***************************************************************************)
JoinInit ==
    /\ NoGeocoder
    /\ NoGenerator
    /\ NoNaming
    /\ NoHashing
    /\ NoConverting
    /\ NoTiming
    /\ voter_addresses \in VoterTables
    /\ ballot_box_isochrones \in PolygonTables
    /\ summary_pc = "idle"
    /\ within_any_true = 0
    /\ total_count_voters = 0
    /\ building_addresses = << >>
    /\ rollup = None

\* The column of a table.
Column(df) == [k \in 1..Len(df) |-> df[k].count_voters]

\* The keys of groupby(["building_id", "geometry"]): a row whose key holds
\* a missing value is in no group (dropna).
GroupKeys(df) ==
    { <<df[k].building_id, df[k].geometry>> :
         k \in { j \in DOMAIN df : df[j].geometry # None } }

\* The rows of a group.
Group(df, key) ==
    LET InGroup(voter_row) == <<voter_row.building_id, voter_row.geometry>> = key
    IN SelectSeq(df, InGroup)

\* lines 44-48: groupby(...)[count_voters_col].sum().reset_index(...)
groupby(df) ==
    LET keys == SetToSeq(GroupKeys(df))
    IN [g \in 1..Len(keys) |->
           [building_id |-> keys[g][1],
            geometry |-> keys[g][2],
            count_voters |-> Sum(Column(Group(df, keys[g])))]]

\* Every polygon the point is within is counted.
RECURSIVE HitsWithoutBreak(_, _)
HitsWithoutBreak(voter_geometry, polygons) ==
    IF polygons = << >> THEN 0
    ELSE (IF within(voter_geometry, Head(polygons)) THEN 1 ELSE 0)
            + HitsWithoutBreak(voter_geometry, Tail(polygons))

\* Only the first polygon is tested.
HitsFirstPolygonOnly(voter_geometry, polygons) ==
    IF polygons = << >> THEN 0
    ELSE IF within(voter_geometry, Head(polygons)) THEN 1
    ELSE 0

\* lines 54-59: how often line 58 is run for a group: the loop over the
\* polygons ends at the first the point is within.
RECURSIVE Hits(_, _)
Hits(voter_geometry, polygons) ==
    IF polygons = << >> THEN 0
    ELSE IF within(voter_geometry, Head(polygons)) THEN 1
    ELSE Hits(voter_geometry, Tail(polygons))

NaN == [kind |-> "nan"]
Float(parts) == [kind |-> "float", parts |-> parts]

\* a / b for b # 0, rounded to the nearest of the SharePrecision parts of one
TrueDivide(a, b) == Float((2 * a * SharePrecision + b) \div (2 * b))

\* lines 41-48: the total of the column and the groups.
Summary ==
    /\ summary_pc = "idle"
    /\ within_any_true' = 0
    /\ total_count_voters' = Sum(Column(voter_addresses))
    /\ building_addresses' = groupby(voter_addresses)
    /\ summary_pc' = "loop"
    /\ UNCHANGED <<geocoder, generator, naming, hashing, converting, timing, voter_addresses,
                   ballot_box_isochrones, rollup>>

\* lines 50-59: one turn of the loop over the groups.
SummaryRow ==
    /\ summary_pc = "loop"
    /\ building_addresses # << >>
    /\ LET voter_row == Head(building_addresses)
       IN within_any_true' = within_any_true
              + Hits(voter_row.geometry, ballot_box_isochrones) * voter_row.count_voters
    /\ building_addresses' = Tail(building_addresses)
    /\ UNCHANGED <<geocoder, generator, naming, hashing, converting, timing, voter_addresses,
                   ballot_box_isochrones, summary_pc, total_count_voters, rollup>>

\* lines 61-69: the rollup.  A total of zero is divided by: a numpy number
\* gives nan, a Python int (the sum of an object column) ZeroDivisionError.
SummaryRollup ==
    /\ summary_pc = "loop"
    /\ building_addresses = << >>
    /\ LET within_any_false == total_count_voters - within_any_true
           Rollup(share_true, share_false) ==
               [within_any |-> <<TRUE, FALSE>>,
                count_voters |-> <<within_any_true, within_any_false>>,
                share_voters |-> <<share_true, share_false>>]
       IN IF total_count_voters # 0
          THEN /\ rollup' = Rollup(TrueDivide(within_any_true, total_count_voters),
                                   TrueDivide(within_any_false, total_count_voters))
               /\ summary_pc' = "done"
          ELSE \/ /\ rollup' = Rollup(NaN, NaN)
                  /\ summary_pc' = "done"
               \/ /\ summary_pc' = "ZeroDivisionError"
                  /\ UNCHANGED rollup
    /\ UNCHANGED <<geocoder, generator, naming, hashing, converting, timing, voter_addresses,
                   ballot_box_isochrones, within_any_true, total_count_voters,
                   building_addresses>>

JoinNext ==
    \/ Summary
    \/ SummaryRow
    \/ SummaryRollup

JoinSpec == JoinInit /\ [][JoinNext]_vars

(***************************************************************************)
(* Properties.                                                             *)
(***************************************************************************)
TaskIds == 1..MaxBatchSize

\* Task i takes a step of _geocode_single.
Stepped(i) == i \in DOMAIN tasks /\ i \in DOMAIN tasks' /\ tasks'[i] # tasks[i]

IdOf(i) == tasks[i].row.building_id

\* No two rows of the input table share a building_id.
DistinctBuildings ==
    \A i, j \in DOMAIN addresses_df :
        building_id(addresses_df[i]) = building_id(addresses_df[j]) => i = j

\* C1: a call that finds the census success entry of its building_id when it
\* starts returns exactly the cached payload and calls neither service; a call
\* of _geocode_single_google that finds the google success entry returns
\* exactly the cached payload and issues no HTTP request.
C1_CacheHitReturnsPayload ==
    [][\A i \in TaskIds : Stepped(i) =>
          /\ (tasks[i].pc = "queued" /\ Exists(census_success[IdOf(i)])) =>
                /\ tasks'[i].pc = "returned"
                /\ tasks'[i].result = census_success[IdOf(i)]
                /\ tasks'[i].census_calls = 0
                /\ tasks'[i].google_requests = 0
          /\ (tasks[i].pc = "google" /\ Exists(google_success[IdOf(i)])) =>
                /\ tasks'[i].pc = "returned"
                /\ tasks'[i].result = google_success[IdOf(i)]
                /\ tasks'[i].google_requests = 0]_vars

C3_FallbackFailureIsPermanent ==
    [][/\ \A id \in BuildingIds : Exists(google_fail[id]) => Exists(google_fail'[id])
       /\ \A i \in TaskIds : Stepped(i) =>
             /\ (tasks[i].pc = "google_request" /\ tasks'[i].pc = "dump_google_fail") =>
                   Exists(google_fail'[IdOf(i)])
             /\ tasks[i].pc = "dump_google_fail" =>
                   /\ tasks'[i].pc = "returned"
                   /\ tasks'[i].result = None
             /\ (/\ tasks[i].pc \in {"google", "google_check_fail"}
                 /\ Exists(google_fail[IdOf(i)])) =>
                   /\ tasks'[i].google_requests = 0
                   /\ tasks'[i].pc # "google_request"
                   /\ ~(tasks'[i].pc = "returned" /\ Truthy(tasks'[i].result))]_vars

\* C4: on a census cache miss the census geocoder is called once.  An empty
\* answer writes the census failure marker and enters the fallback resolver.
\* An error makes the call return None without entering the fallback resolver
\* and without creating or changing any cache entry.
C4_PrimaryMiss ==
    [][\A i \in TaskIds : Stepped(i) =>
          /\ tasks'[i].census_calls <= 1
          /\ tasks'[i].census_calls = 1 => tasks[i].pc \notin {"queued", "check_fail"}
          /\ tasks[i].pc = "census" =>
                /\ tasks[i].census_calls = 0
                /\ tasks'[i].census_calls = 1
                /\ \/ /\ tasks'[i].pc = "dump_census_success"
                      /\ tasks'[i].logged = "none"
                      /\ Truthy(tasks'[i].result)
                      /\ census_fail' = census_fail
                   \/ /\ tasks'[i].pc = "dump_census_fail"
                      /\ tasks'[i].logged = "none"
                      /\ Exists(census_fail'[IdOf(i)])
                      /\ census_success' = census_success
                   \/ /\ tasks'[i].pc = "returned"
                      /\ tasks'[i].result = None
                      /\ tasks'[i].logged = "CensusError"
                      /\ tasks'[i].google_requests = 0
                      /\ cache' = cache
          /\ tasks[i].pc = "dump_census_fail" =>
                /\ census_fail'[IdOf(i)] = None
                /\ tasks'[i].pc = "google"
                /\ tasks'[i].via = "fresh"]_vars

\* The census geocoder raised: the call returned None and the fallback was
\* not asked.
C4_Witness ==
    \E i \in DOMAIN tasks :
        /\ tasks[i].logged = "CensusError"
        /\ tasks[i].pc = "returned"
        /\ tasks[i].census_calls = 1
        /\ \A d \in {census_success, census_fail, google_success, google_fail} :
              ~Exists(d[tasks[i].row.building_id])

\* C5: a transport failure of the fallback request leaves _geocode_single as
\* an exception; it is never turned into a None result (which the handler of
\* line 302 does by logging it).
C5_TransportErrorsPropagate ==
    \A i \in DOMAIN tasks : tasks[i].logged # "RequestException"

\* C6: the ValueError of a missing GOOGLE_API_KEY leaves _geocode_single; it
\* is never logged and turned into a None result.
C6_MissingCredentialSurfaces ==
    \A i \in DOMAIN tasks : tasks[i].logged # "ValueError"

\* C7: geocode is never ended by the failure of one address: no fallback
\* transport error and no missing credential of a task is raised by geocode
\* (stated for the tables whose rows are different buildings).
C7_FailuresNeverAbortBatch ==
    DistinctBuildings => ~(pc = "raised" /\ error \in {"RequestException", "ValueError"})

\* C8: the table never holds two rows with one building_id, and a row, once in
\* the table, stays there as it is (so its lat, lng and geocoding_source do).
C8_OneRowPerBuildingForever ==
    [][/\ \A v \in voters : v \in voters'
       /\ \A v, w \in voters' : v.building_id = w.building_id => v = w]_vars

\* The table holds rows and an append that would have given a building_id a
\* second row was rejected.
C8_Witness ==
    /\ pc = "raised"
    /\ error = "ConstraintException"
    /\ voters # {}

\* C9: the tasks of a batch have pairwise different building_ids, and none of
\* them is a building_id the table holds.
C9_OneTaskPerBuilding ==
    pc = "batch" =>
        /\ \A i, j \in DOMAIN tasks :
              i # j => tasks[i].row.building_id # tasks[j].row.building_id
        /\ \A i \in DOMAIN tasks : \A v \in voters :
              v.building_id # tasks[i].row.building_id

\* C10: a run that follows a terminated one does not fail on what the
\* terminated run left in the cache.
C10_ResumeCompletes ==
    (resumed /\ DistinctBuildings) => ~(pc = "raised" /\ error = "JSONDecodeError")

\* C11: no reader of the geocode cache finds an entry that exists on disk
\* with incomplete content: whenever a call looks an entry up (the census
\* success file, the census failure marker, the google success file, the
\* google failure marker), the entry is absent or holds its full payload.
C11_NoPartialEntryRead ==
    [][\A i \in TaskIds : Stepped(i) =>
          /\ tasks[i].pc = "queued" => census_success[IdOf(i)] # Truncated
          /\ tasks[i].pc = "check_fail" => census_fail[IdOf(i)] # Truncated
          /\ (tasks[i].pc = "google" /\ google_api_key) =>
                google_success[IdOf(i)] # Truncated
          /\ tasks[i].pc = "google_check_fail" => google_fail[IdOf(i)] # Truncated]_vars

\* C12: batches run one after another.  The table changes only in the step
\* that ends a batch all of whose tasks have returned, and then by exactly
\* the resolved rows of that batch; only that step moves the loop to the next
\* batch; the tasks of a batch are created when the loop is between batches
\* and are the rows at batch_start; a task runs only inside its batch; and
\* terminating the process during a batch stores none of its rows.
C12_BatchesSequential ==
    [][/\ (voters' # voters \/ batch_start' > batch_start) =>
             /\ pc = "batch"
             /\ pc' = "loop"
             /\ \A i \in DOMAIN tasks : tasks[i].pc = "returned"
             /\ voters' = voters \cup { GeocodedBatch(tasks)[k] :
                                           k \in 1..Len(GeocodedBatch(tasks)) }
             /\ batch_start' = batch_start + batch_size
       /\ (tasks = << >> /\ tasks' # << >>) =>
             /\ pc = "loop"
             /\ pc' = "batch"
             /\ \A i \in DOMAIN tasks' : tasks'[i].pc = "queued"
       /\ pc' = "batch" =>
             [i \in DOMAIN tasks' |-> tasks'[i].row] =
                Batch(remaining_to_process', batch_start', batch_size')
       /\ (\E i \in TaskIds : Stepped(i)) => (pc = "batch" /\ pc' = "batch")
       /\ pc' = "killed" => voters' = voters]_vars

\* A first batch is stored and a task of the second batch is running.
C12_Witness ==
    /\ pc = "batch"
    /\ batch_start > 0
    /\ voters # {}
    /\ \E i \in DOMAIN tasks : Running(tasks[i])

\* C13: geocode returns one row per row of the input table, in its order: a
\* row whose building_id the table holds carries that row's lat and lng, rows
\* of one building_id carry the same coordinates, and a row whose building_id
\* the table does not hold is kept without coordinates.
C13_OneRowPerInputRow ==
    pc = "done" =>
        /\ Len(joined) = Len(addresses_df)
        /\ \A k \in DOMAIN joined :
              /\ joined[k].row = addresses_df[k]
              /\ joined[k].found <=>
                    \E v \in voters : v.building_id = building_id(addresses_df[k])
              /\ joined[k].found =>
                    \A v \in voters : v.building_id = building_id(addresses_df[k]) =>
                        (joined[k].lat = v.lat /\ joined[k].lng = v.lng)
        /\ \A k, l \in DOMAIN joined :
              (/\ building_id(joined[k].row) = building_id(joined[l].row)
               /\ joined[k].found) =>
                  /\ joined[l].found
                  /\ joined[l].lat = joined[k].lat
                  /\ joined[l].lng = joined[k].lng

\* geocode returned a table of two units of one building, both with the
\* building's coordinates.
C13_Witness ==
    /\ pc = "done"
    /\ Len(joined) = 2
    /\ joined[1].row # joined[2].row
    /\ building_id(joined[1].row) = building_id(joined[2].row)
    /\ joined[1].found
    /\ joined[2].found

\* C14: a call of geocode, the first on a Geocoder or a later one, makes the
\* building_ids of its input table, creates no task (so issues no request)
\* for a building_id the table held when the call began, and, when nothing
\* is left to resolve, returns the joined table.
C14_SecondCallReturnsJoined ==
    [][/\ (pc \in {"idle", "done"} /\ pc' = "loop") =>
             \A k \in DOMAIN remaining_to_process' :
                /\ \E n \in DOMAIN addresses_df :
                      remaining_to_process'[k].building_id = building_id(addresses_df[n])
                /\ \A v \in voters : v.building_id # remaining_to_process'[k].building_id
       /\ (pc = "loop" /\ pc' = "batch") =>
             \A i \in DOMAIN tasks' :
                \E k \in DOMAIN remaining_to_process : tasks'[i].row = remaining_to_process[k]
       /\ (pc = "loop" /\ pc' \notin {"loop", "batch", "killed"}) =>
             /\ pc' = "done"
             /\ joined' = _join_existing(addresses_df, _get_existing)]_vars

\* The table rows an append adds.
Appended == voters' \ voters

\* Task i returns a payload in this step.
Resolves(i) == Stepped(i) /\ tasks'[i].pc = "returned" /\ Truthy(tasks'[i].result)

\* C26: a payload a task returns comes from the census geocoder (its answer
\* or the census success file) or from google (its answer or the google
\* success file); the table row made from it is tagged "census" in the first
\* case and has the y and x of the first candidate as lat and lng, and is
\* tagged "google" in the second and has the lat and lng of the first
\* result's location; the rows an append adds are the rows so made from
\* the tasks' payloads.
C26_SourceTagIsProducer ==
    [][/\ \A i \in TaskIds : Resolves(i) =>
             LET r == tasks'[i].result
                 stored == GeocodedRow(tasks'[i].row, r)
             IN /\ tasks[i].pc \in {"queued", "dump_census_success", "google",
                                    "dump_google_success"}
                /\ tasks[i].pc = "queued" => r = census_success[IdOf(i)]
                /\ tasks[i].pc = "google" => r = google_success[IdOf(i)]
                /\ tasks[i].pc \in {"queued", "dump_census_success"} =>
                      /\ r \in CensusAnswers
                      /\ stored.geocoding_source = "census"
                      /\ stored.lat = r.items[1].coordinates.y
                      /\ stored.lng = r.items[1].coordinates.x
                /\ tasks[i].pc \in {"google", "dump_google_success"} =>
                      /\ r \in GoogleAnswers
                      /\ stored.geocoding_source = "google"
                      /\ stored.lat = r.results[1].geometry.location.lat
                      /\ stored.lng = r.results[1].geometry.location.lng
       /\ voters' # voters =>
             \A v \in Appended : \E i \in DOMAIN tasks :
                /\ Truthy(tasks[i].result)
                /\ v = GeocodedRow(tasks[i].row, tasks[i].result)]_vars

\* The table holds a row of either source, the google one made from a
\* payload of the google success file.
C26_Witness ==
    /\ \E v \in voters : v.geocoding_source = "census"
    /\ \E v \in voters : /\ v.geocoding_source = "google"
                         /\ resumed
                         /\ Decodable(google_success[v.building_id])

\* The four directories of the geocode cache.
CacheDirs == <<census_success, census_fail, google_success, google_fail>>
CacheDirsNext == <<census_success', census_fail', google_success', google_fail'>>

\* C27: no step removes a cache entry, and no step changes the content of an
\* entry that has been written, in the geocode cache and in the isochrone
\* cache.
C27_CacheOnlyGrows ==
    [][/\ \A d \in 1..4 : \A id \in BuildingIds :
             /\ Exists(CacheDirs[d][id]) => Exists(CacheDirsNext[d][id])
             /\ Decodable(CacheDirs[d][id]) => CacheDirsNext[d][id] = CacheDirs[d][id]
       /\ \A f \in IsoFilenames :
             /\ Exists(iso_files[f]) => Exists(iso_files'[f])
             /\ Decodable(iso_files[f]) => iso_files'[f] = iso_files[f]]_vars

\* C29: an append happens when every task of the batch has returned, and
\* adds, for every task that returned a payload, the row of that task's
\* building_id and address with the coordinates and the source of that
\* task's payload, and nothing else, in whatever order the tasks ended.
C29_RowsPairedWithOwnResults ==
    [][voters' # voters =>
          /\ \A i \in DOMAIN tasks : tasks[i].pc = "returned"
          /\ \A i \in DOMAIN tasks : Truthy(tasks[i].result) =>
                \E v \in Appended :
                   /\ v.building_id = tasks[i].row.building_id
                   /\ v.street_address = tasks[i].row.street
                   /\ v.geocoding_source =
                         (IF tasks[i].result \in GoogleAnswers THEN "google" ELSE "census")
                   /\ <<v.lat, v.lng>> =
                         (IF tasks[i].result \in GoogleAnswers
                          THEN <<tasks[i].result.results[1].geometry.location.lat,
                                 tasks[i].result.results[1].geometry.location.lng>>
                          ELSE <<tasks[i].result.items[1].coordinates.y,
                                 tasks[i].result.items[1].coordinates.x>>)
          /\ \A v \in Appended : \E i \in DOMAIN tasks :
                /\ Truthy(tasks[i].result)
                /\ v.building_id = tasks[i].row.building_id
                /\ v.street_address = tasks[i].row.street
                /\ v.geocoding_source =
                      (IF tasks[i].result \in GoogleAnswers THEN "google" ELSE "census")]_vars

\* One batch of two addresses has been stored, one resolved by the census
\* geocoder and one by google.
C29_Witness ==
    /\ pc = "loop"
    /\ batch_size = 2
    /\ batch_start = 2
    /\ \E v, w \in voters :
          /\ v.building_id # w.building_id
          /\ v.geocoding_source = "census"
          /\ w.geocoding_source = "google"

\* C30: no building_id has a census success entry and a census failure
\* marker, or a google success entry and a google failure marker.
C30_SuccessXorFailure ==
    \A id \in BuildingIds :
        /\ ~(Exists(census_success[id]) /\ Exists(census_fail[id]))
        /\ ~(Exists(google_success[id]) /\ Exists(google_fail[id]))

(***************************************************************************)
(* Properties of generate_isochrones.                                      *)
(***************************************************************************)
IsPost(e) == e.op = "post"

\* The requests made so far for the location, in order.
Attempts == SelectSeq(log, IsPost)

\* The 0-based index of the attempt logged at position k.
AttemptIndex(k) == Cardinality({ j \in 1..(k - 1) : IsPost(log[j]) })

\* _generate_isochrone is running.
InCall == iso_pc \in {"sleep", "post", "backoff", "json"}

\* C15: with a cache directory, a location whose cache file exists is not
\* requested (nothing is slept or posted for it), the file is not written,
\* and the location's polygon in the result is the one made from the file's
\* content.  (A file that exists without its content ends the run with
\* JSONDecodeError: it has no result.)
C15_CacheHitMakesNoRequest ==
    [][/\ (iso_pc = "lookup" /\ cache_dir /\ Exists(iso_files[Filename])) =>
             /\ iso_pc' \in {"shape", "raised", "killed"}
             /\ log' = << >>
             /\ iso_files' = iso_files
             /\ iso_pc' = "shape" => isochrone' = iso_files[Filename]
             /\ iso_pc' = "raised" => iso_error' = "JSONDecodeError"
       /\ (iso_pc = "shape" /\ log = << >>) =>
             /\ cache_dir
             /\ isochrone = iso_files[Filename]
             /\ iso_files' = iso_files
             /\ iso_pc' # "killed" => isochrones'[idx] = Isochrone(iso_files[Filename])]_vars

\* The second location is served from the cache file and has a polygon.
C15_Witness ==
    /\ iso_pc = "shape"
    /\ idx = 2
    /\ log = << >>
    /\ HasResults(isochrone)

\* What C16 says of every state: at most max_retries requests; a 429 on the
\* attempt with index i is followed by a wait of 10 * (i + 2) seconds and
\* that wait, when attempts are left, by the next attempt; a 200 ends the
\* call, which returns that response's body.
C16_Waits ==
    /\ Len(Attempts) <= max_retries
    /\ \A k \in DOMAIN log :
          log[k] = Post(429) =>
             /\ k = Len(log) => iso_pc = "backoff"
             /\ k < Len(log) => log[k + 1] = Sleep(10 * (AttemptIndex(k) + 2))
             /\ (k + 1 = Len(log) /\ AttemptIndex(k) + 1 < max_retries) => iso_pc = "post"
             /\ k + 1 < Len(log) => IsPost(log[k + 2])
    /\ \A k \in DOMAIN log :
          log[k] = Post(200) =>
             /\ k = Len(log)
             /\ iso_pc \in {"json", "dump", "shape"}
             /\ iso_pc \in {"dump", "shape"} => isochrone \in IsoAnswers
    /\ (max_retries = 4 /\ Len(Attempts) = 2 /\ Attempts[1] = Post(429)
          /\ Attempts[2] = Post(200)) =>
             log = <<Sleep(5), Post(429), Sleep(20), Post(200)>>

\* C16: a 429 on attempt i is followed by a wait of 10 * (i + 2) seconds and
\* then, while attempts are left, by the next attempt; with max_retries = 4 a
\* 429 and then a 200 are two requests 20 seconds apart and the call returns
\* the 200 response; the call makes at most max_retries requests, whatever
\* the responses, and ends.
C16_BackoffAndTermination ==
    /\ []C16_Waits
    /\ InCall ~> ~InCall

\* max_retries = 4: a 429, 20 seconds, a 200, and the call has returned the
\* body of the 200 response.
C16_Witness ==
    /\ max_retries = 4
    /\ log = <<Sleep(5), Post(429), Sleep(20), Post(200)>>
    /\ iso_pc = "shape"
    /\ isochrone \in IsoAnswers

\* The exceptions that are requests.exceptions.RequestException.
RequestExceptions == {"HTTPError", "ConnectionError", "RequestsJSONDecodeError"}

\* C17: when all max_retries attempts were answered 429, the call raises a
\* request error: it returns nothing, so nothing is written to the cache and
\* nothing goes into the result for the location.
C17_ExhaustedRetriesRaise ==
    (/\ Len(Attempts) > 0
     /\ Len(Attempts) = max_retries
     /\ \A j \in DOMAIN Attempts : Attempts[j] = Post(429)) =>
        /\ iso_pc \in {"backoff", "json", "raised"}
        /\ iso_pc = "raised" => iso_error \in RequestExceptions

\* C18: a request that fails otherwise than with a 429 response (an error
\* status, no response) is the last of the call, and the call raises that
\* request's error.
C18_OtherFailuresFailAtOnce ==
    \A k \in DOMAIN log :
        (IsPost(log[k]) /\ log[k].arg \notin {200, 429}) =>
            /\ k = Len(log)
            /\ iso_pc = "raised"
            /\ iso_error = RequestError(log[k].arg)

\* C19, as claimed: every request, the first and each retry, comes right
\* after the fixed delay of 5 seconds.
C19_DelayBeforeEveryAttempt ==
    \A k \in DOMAIN log : IsPost(log[k]) => (k > 1 /\ log[k - 1] = Sleep(5))

\* C19, amended: the fixed delay of 5 seconds is the first thing a call does
\* and happens once; the first request comes right after it, and each retry
\* right after the backoff wait of the attempt before it, with no fixed
\* delay between them.
C19_DelayOncePerCall ==
    /\ iso_pc \in {"post", "backoff", "json"} => log # << >>
    /\ log # << >> => log[1] = Sleep(5)
    /\ \A k \in DOMAIN log :
          /\ log[k] = Sleep(5) => k = 1
          /\ IsPost(log[k]) =>
                /\ k > 1
                /\ log[k - 1] = IF k = 2 THEN Sleep(5)
                                ELSE Sleep(RetrySeconds(AttemptIndex(k) - 1))

\* A retry has been made.
C19_Witness ==
    /\ Len(Attempts) >= 2
    /\ iso_pc = "json"

\* C21: a response without results, or with an empty results list, is no
\* error: the step that puts it into the result does not raise, leaves the
\* location's isochrone None and every other row as it is, and goes on to
\* the next location (or returns); the result has one row per location.
C21_NoResultsIsAbsence ==
    [][/\ (iso_pc = "shape" /\ ~HasResults(isochrone) /\ iso_pc' # "killed") =>
             /\ iso_pc' = IF idx < Len(locations) THEN "lookup" ELSE "done"
             /\ idx' = IF idx < Len(locations) THEN idx + 1 ELSE idx
             /\ iso_error' = "none"
             /\ isochrones' = isochrones
             /\ isochrones'[idx] = None
       /\ iso_pc' \in {"lookup", "sleep", "post", "backoff", "json", "dump", "shape", "done"} =>
             Len(isochrones') = Len(locations)]_vars

\* The service had no results for the first location, whose row is empty,
\* and the run went on and returned a polygon for the second.
C21_Witness ==
    /\ iso_pc = "done"
    /\ cache_dir
    /\ Len(locations) = 2
    /\ iso_files[_construct_filename(DefaultGenerator, Location(locations[1]), travel_minutes)]
          \in {IsoEmptyResults, IsoNoResults}
    /\ isochrones[1] = None
    /\ isochrones[2] # None

(***************************************************************************)
(* Properties of SpatialJoiner.summary.                                    *)
(***************************************************************************)
\* C22: summary returns for every input, its two counts add up to the sum
\* of the count column over all voter rows, and its two shares are numbers
\* that add up to one (to the rounding of the two divisions).
C22_CountsAndSharesAddUp ==
    /\ summary_pc # "ZeroDivisionError"
    /\ summary_pc = "done" =>
          /\ rollup.count_voters[1] + rollup.count_voters[2] = Sum(Column(voter_addresses))
          /\ \A n \in 1..2 : rollup.share_voters[n] # NaN
          /\ LET shares == rollup.share_voters[1].parts + rollup.share_voters[2].parts
             IN shares \in (SharePrecision - 1)..(SharePrecision + 1)

\* The point is within at least one of the joiner's polygons.
WithinAny(point) ==
    \E n \in DOMAIN ballot_box_isochrones : within(point, ballot_box_isochrones[n])

\* The counts of the voter rows that have a point within some polygon.
CountedRows ==
    LET Counted(voter_row) == voter_row.geometry # None /\ WithinAny(voter_row.geometry)
    IN Column(SelectSeq(voter_addresses, Counted))

\* C23: when the loop over the groups has ended, within_any_true is the sum
\* of the counts of the rows whose point is within at least one polygon,
\* each counted once however many polygons hold it; the rows with a point
\* in no polygon, or with no point, are in the other count only; and the
\* true count is between 0 and the total.
C23_TrueCountIsWeightInside ==
    /\ (summary_pc = "loop" /\ building_addresses = << >>) =>
          within_any_true = Sum(CountedRows)
    /\ summary_pc = "done" =>
          /\ rollup.count_voters[1] = Sum(CountedRows)
          /\ rollup.count_voters[2] = Sum(Column(voter_addresses)) - Sum(CountedRows)
          /\ 0 <= rollup.count_voters[1]
          /\ rollup.count_voters[1] <= Sum(Column(voter_addresses))

\* summary has returned for two voters, one at a point within both polygons
\* and one without a point: one voter is counted within, one not.
C23_Witness ==
    /\ summary_pc = "done"
    /\ Len(ballot_box_isochrones) = 2
    /\ \A n \in 1..2 : within(Point(1), ballot_box_isochrones[n])
    /\ Len(voter_addresses) = 2
    /\ voter_addresses[1].geometry = Point(1)
    /\ voter_addresses[1].count_voters = 1
    /\ voter_addresses[2].geometry = None
    /\ voter_addresses[2].count_voters = 1
    /\ rollup.count_voters = <<1, 1>>

(***************************************************************************)
(* Properties of _generate_id.                                             *)
(***************************************************************************)
\* Two characters are one letter, in whatever case.
SameLetter(c, d) ==
    \/ c = d
    \/ {c, d} \in {{"m", "M"}, {"e", "E"}, {"a", "A"}, {"c", "C"}, {"s", "S"}}

\* Two texts differ at most in the case of their letters.
SameUpToCase(s, t) ==
    /\ Len(s) = Len(t)
    /\ \A n \in 1..Len(s) : SameLetter(s[n], t[n])

\* Two rows are one building, written in whatever case.
SameBuilding(r1, r2) ==
    /\ SameUpToCase(r1.street, r2.street)
    /\ SameUpToCase(r1.city, r2.city)
    /\ SameUpToCase(r1.state, r2.state)
    /\ SameUpToCase(r1.zip, r2.zip)

\* C24: rows that differ at most in the letter case of street, city, state
\* and zip, and in whatever way in their unit, get the same building_id (so
\* do equal rows: the id is a function of the row), with or without a
\* unit_col.
C24_BuildingIdIgnoresCaseAndUnit ==
    \A k, l \in DOMAIN ids :
        SameBuilding(id_table.rows[k], id_table.rows[l]) =>
            ids[k].building_id = ids[l].building_id

\* The ids are made for a table of one building written in two cases, with
\* two units.
C24_Witness ==
    /\ Len(ids) = 2
    /\ id_table.rows[1].street # id_table.rows[2].street
    /\ id_table.rows[1].city # id_table.rows[2].city
    /\ id_table.rows[1].unit # id_table.rows[2].unit
    /\ SameBuilding(id_table.rows[1], id_table.rows[2])

\* The address_id hashes the four components and, with a unit_col, the unit
\* after them; without a unit_col it is the building_id.
AddressIdHashesUnit ==
    \A k \in DOMAIN ids :
        LET r == id_table.rows[k]
        IN /\ id_table.unit_col =>
                 ids[k].address_id =
                    sha256(lower(r.street \o r.city \o r.state \o r.zip \o r.unit))
           /\ ~id_table.unit_col => ids[k].address_id = ids[k].building_id

\* C25, as claimed: with a unit_col, two rows of one building with different
\* units have different address_ids and the same building_id.
C25_DifferentUnitsDifferentIds ==
    /\ AddressIdHashesUnit
    /\ id_table.unit_col =>
          \A k, l \in DOMAIN ids :
              (/\ SameBuilding(id_table.rows[k], id_table.rows[l])
               /\ id_table.rows[k].unit # id_table.rows[l].unit) =>
                  /\ ids[k].address_id # ids[l].address_id
                  /\ ids[k].building_id = ids[l].building_id

\* C25, amended: with a unit_col, two rows of one building whose units
\* differ otherwise than in letter case have different address_ids and the
\* same building_id; units that differ in letter case only give one
\* address_id.
C25_UnitsUpToCase ==
    /\ AddressIdHashesUnit
    /\ id_table.unit_col =>
          \A k, l \in DOMAIN ids :
              SameBuilding(id_table.rows[k], id_table.rows[l]) =>
                  /\ ids[k].building_id = ids[l].building_id
                  /\ (ids[k].address_id = ids[l].address_id) <=>
                        SameUpToCase(id_table.rows[k].unit, id_table.rows[l].unit)

\* With a unit_col, the ids are made for two units of one building.
C25_Witness ==
    /\ Len(ids) = 2
    /\ id_table.unit_col
    /\ SameBuilding(id_table.rows[1], id_table.rows[2])
    /\ ~SameUpToCase(id_table.rows[1].unit, id_table.rows[2].unit)
    /\ ids[1].address_id # ids[2].address_id

(***************************************************************************)
(* Properties of _isochrone_response_to_shape.                             *)
(***************************************************************************)
\* The ring has the points' vertices in their order, each as (lng, lat).
IsRingOf(ring, points) ==
    /\ Len(ring) = Len(points)
    /\ \A k \in 1..Len(points) :
          /\ ring[k][1] = points[k].lng
          /\ ring[k][2] = points[k].lat

\* C28: the multi-polygon made of a list of shapes has one part per shape,
\* in the order of the list; a part's rings are the shell and then the
\* holes in their order; a ring's vertices are its points in their order,
\* each written (longitude, latitude).
C28_PartsRingsVerticesInOrder ==
    multipolygon # None =>
        /\ multipolygon.type = "MultiPolygon"
        /\ Len(multipolygon.coordinates) = Len(api_shapes)
        /\ \A n \in 1..Len(api_shapes) :
              LET rings == multipolygon.coordinates[n]
              IN /\ Len(rings) = 1 + Len(api_shapes[n].holes)
                 /\ IsRingOf(rings[1], api_shapes[n].shell)
                 /\ \A h \in 1..Len(api_shapes[n].holes) :
                       IsRingOf(rings[h + 1], api_shapes[n].holes[h])

\* Two different shapes have been converted, the first with two different
\* holes and a shell of two points.
C28_Witness ==
    /\ multipolygon # None
    /\ Len(api_shapes) = 2
    /\ api_shapes[1] # api_shapes[2]
    /\ Len(api_shapes[1].shell) = 2
    /\ Len(api_shapes[1].holes) = 2
    /\ api_shapes[1].holes[1] # api_shapes[1].holes[2]

(***************************************************************************)
(* Properties of _construct_filename.                                      *)
(***************************************************************************)
\* The five components of a call: the sanitized location id, the travel
\* type, the minutes, the arrival weekday and the arrival hour and minute.
Key(req) ==
    <<sanitize_name_or_id(req.name), req.travel_type, req.minutes, req.weekday,
      <<req.hour, req.minute>> >>

\* C20: the filename of a call is the filename of another call exactly when
\* the two calls have the same five components.
C20_FilenameInjective ==
    filename # << >> =>
        \A other \in FilenameRequests :
            (filename = FilenameOf(other)) <=> (Key(request) = Key(other))

\* A filename has been made that a call with another location name, of the
\* same sanitized form, gets too.
C20_Witness ==
    /\ filename # << >>
    /\ \E other \in FilenameRequests :
          /\ other.name # request.name
          /\ filename = FilenameOf(other)

(***************************************************************************)
(* Properties of the isochrone cache.                                      *)
(***************************************************************************)
\* C31: every file of the isochrone cache that has a content holds the body
\* of a response that passed raise_for_status, never the body of a 429 or
\* another error response; so no lookup is ever answered with such a body.
C31_CacheHoldsSuccessBodies ==
    /\ \A f \in IsoFilenames : Decodable(iso_files[f]) => iso_files[f] \in IsoAnswers
    /\ (iso_pc = "shape" /\ log = << >>) => isochrone \in IsoAnswers

\* The cache file of the location of row k.
FilenameAt(k) == _construct_filename(DefaultGenerator, Location(locations[k]), travel_minutes)

\* The polygons the answers to a request with the coordinates of a place
\* give, None for an answer without results.
PolygonsAt(place) == { Isochrone(body) : body \in AnswersAt(place) }

SanitizedName(k) == sanitize_name_or_id(locations[k])

\* C32, as claimed: in a run with a cache directory, two locations that
\* differ in name or in coordinates have different cache files, and the
\* polygon of every location is one the service answers for that location's
\* own coordinates.
C32_OwnFileOwnPolygon ==
    (cache_dir /\ iso_pc \in {"shape", "done"}) =>
        /\ \A j, k \in DOMAIN locations :
              (locations[j] # locations[k] \/ coords[j] # coords[k]) =>
                  FilenameAt(j) # FilenameAt(k)
        /\ \A k \in DOMAIN isochrones : isochrones[k] \in PolygonsAt(coords[k])

\* C32, amended: with a cache directory, two locations have different cache
\* files exactly when their sanitized names differ, and the polygon of
\* every location is one the service answers for the coordinates of a
\* location of the same sanitized name.
C32_FileOfSanitizedName ==
    cache_dir =>
        /\ \A j, k \in DOMAIN locations :
              (SanitizedName(j) # SanitizedName(k)) <=> (FilenameAt(j) # FilenameAt(k))
        /\ \A k \in DOMAIN isochrones :
              \E j \in DOMAIN locations :
                  /\ SanitizedName(j) = SanitizedName(k)
                  /\ isochrones[k] \in PolygonsAt(coords[j])

\* A run with a cache directory has returned polygons for two locations of
\* different sanitized names at different places, the second read from the
\* cache.
C32_Witness ==
    /\ cache_dir
    /\ iso_pc = "shape"
    /\ idx = 2
    /\ log = << >>
    /\ SanitizedName(1) # SanitizedName(2)
    /\ coords[1] # coords[2]
    /\ isochrones[1] # None
    /\ HasResults(isochrone)

(***************************************************************************)
(* Properties of _generate_id: what a building_id tells apart.             *)
(***************************************************************************)
\* C33: two rows get one building_id only if their lower-cased street, city,
\* state and zip are equal field by field.
C33_BuildingIdSeparatesFields ==
    \A j, k \in DOMAIN ids :
        (ids[j].building_id = ids[k].building_id) =>
            /\ lower(id_table.rows[j].street) = lower(id_table.rows[k].street)
            /\ lower(id_table.rows[j].city) = lower(id_table.rows[k].city)
            /\ lower(id_table.rows[j].state) = lower(id_table.rows[k].state)
            /\ lower(id_table.rows[j].zip) = lower(id_table.rows[k].zip)

(***************************************************************************)
(* Properties of the geocode cache and of the batches.                     *)
(***************************************************************************)
\* A task is in _geocode_single_google.
InFallback(t) ==
    t.pc \in {"google", "google_check_fail", "google_request", "dump_google_success",
              "dump_google_fail"}

\* C34: a google success entry or failure marker of a building_id exists
\* only if the census failure marker of that building_id exists, and a task
\* is in the fallback only for a row whose census failure marker exists.
C34_FallbackOnlyAfterPrimaryFailure ==
    /\ \A id \in BuildingIds :
          (Exists(google_success[id]) \/ Exists(google_fail[id])) => Exists(census_fail[id])
    /\ \A i \in DOMAIN tasks :
          InFallback(tasks[i]) => Exists(census_fail[tasks[i].row.building_id])

\* The cache holds a google success entry for one building and a google
\* failure marker for another.
C34_Witness ==
    \E id, other \in BuildingIds :
        /\ Decodable(google_success[id])
        /\ Decodable(google_fail[other])
        /\ Decodable(census_fail[id])
        /\ Decodable(census_fail[other])

(***************************************************************************)
(* Properties of the arrival time.                                         *)
(***************************************************************************)
\* The date of the arrival time.
ArrivalDate ==
    LET parsed == _parse_arrival_time(arrival_time_iso)
    IN Date(parsed.year, parsed.month, parsed.day)

\* The HH:MM text without its colon.
WithoutColon(text) == SubSeq(text, 1, 2) \o SubSeq(text, 4, 5)

\* C35: the arrival time is on the first date on or after today that falls
\* on the requested weekday, 0 to 6 days ahead, at the requested time; the
\* weekday and the HHMM of the cache filename are the requested ones.
C35_ArrivalOnRequestedWeekday ==
    /\ arrival_time_iso # << >> =>
          LET ahead == Ordinal(ArrivalDate) - Ordinal(arrival_request.today)
          IN /\ ahead \in 0..6
             /\ ArrivalDate = AddDays(arrival_request.today, ahead)
             /\ WeekDays[weekday(ArrivalDate) + 1] = arrival_request.arrival_weekday
             /\ \A days \in 0..(ahead - 1) :
                   WeekDays[weekday(AddDays(arrival_request.today, days)) + 1] #
                      arrival_request.arrival_weekday
    /\ arrival_filename # << >> =>
          arrival_filename =
             <<"a", "_", "-", "_", "driving", "_", "-", "_", "1", "5", "_", "-", "_",
               arrival_request.arrival_weekday, "_", "-", "_">> \o
             WithoutColon(arrival_request.arrival_time) \o <<".json">>

\* The filename is made for an arrival on a Monday asked for on the last
\* day of a year that is not a Monday: the date is in the next year.
C35_Witness ==
    /\ arrival_filename # << >>
    /\ arrival_request.arrival_weekday = "Monday"
    /\ arrival_request.today.month = 12
    /\ arrival_request.today.day = 31
    /\ ArrivalDate.year = arrival_request.today.year + 1
    /\ weekday(arrival_request.today) # 0

(***************************************************************************)
(* Properties of summary: the order of its tables.                         *)
(***************************************************************************)
\* What the loop of lines 50-59 adds up over the groups, in their order.
RECURSIVE WithinAnyTrue(_, _)
WithinAnyTrue(groups, polygons) ==
    IF groups = << >> THEN 0
    ELSE Hits(Head(groups).geometry, polygons) * Head(groups).count_voters
            + WithinAnyTrue(Tail(groups), polygons)

\* The counts and the shares summary gives for two tables.
SummaryOf(df, polygons) ==
    LET inside == WithinAnyTrue(groupby(df), polygons)
        total == Sum(Column(df))
    IN [count_voters |-> <<inside, total - inside>>,
        share_voters |-> IF total # 0
                         THEN <<TrueDivide(inside, total), TrueDivide(total - inside, total)>>
                         ELSE <<NaN, NaN>>]

\* The orderings of a table.
Orderings(table) ==
    { [k \in DOMAIN table |-> table[order[k]]] : order \in Permutations(DOMAIN table) }

\* C36: the counts and shares summary returns are those of every ordering
\* of the polygons and every ordering of the voter rows.
C36_OrderOfTablesIsIrrelevant ==
    summary_pc = "done" =>
        \A df \in Orderings(voter_addresses), polygons \in Orderings(ballot_box_isochrones) :
            /\ rollup.count_voters = SummaryOf(df, polygons).count_voters
            /\ rollup.share_voters = SummaryOf(df, polygons).share_voters

\* summary has returned for two different voter rows and two different
\* polygons, with a voter at a point that is within one of the polygons
\* only.
C36_Witness ==
    /\ summary_pc = "done"
    /\ Len(voter_addresses) = 2
    /\ voter_addresses[1] # voter_addresses[2]
    /\ Len(ballot_box_isochrones) = 2
    /\ ballot_box_isochrones[1] # ballot_box_isochrones[2]
    /\ rollup.count_voters[1] > 0
    /\ \E k \in DOMAIN voter_addresses :
          /\ voter_addresses[k].geometry # None
          /\ voter_addresses[k].count_voters > 0
          /\ \E m, n \in DOMAIN ballot_box_isochrones :
                /\ within(voter_addresses[k].geometry, ballot_box_isochrones[m])
                /\ ~within(voter_addresses[k].geometry, ballot_box_isochrones[n])

\* C37: the batches are the consecutive slices of batch_size rows of the
\* remaining rows, which are all different: a batch starts at a multiple of
\* batch_size below the number of rows and has the batch_size rows from
\* there on, or the rows that are left when these are fewer, and never none;
\* the next batch starts batch_size rows on; the loop ends when the start has
\* passed every row; and when nothing remains the call goes on to its
\* result with no task made and no file or row written.
C37_BatchesPartitionRemaining ==
    [][/\ pc' = "batch" =>
             LET rows == remaining_to_process'
                 left == Len(rows) - batch_start'
             IN /\ batch_size' >= 1
                /\ batch_start' % batch_size' = 0
                /\ left >= 1
                /\ Len(tasks') = (IF left >= batch_size' THEN batch_size' ELSE left)
                /\ \A i \in DOMAIN tasks' : tasks'[i].row = rows[batch_start' + i]
                /\ \A j, k \in DOMAIN rows : rows[j] = rows[k] => j = k
       /\ (pc = "batch" /\ pc' = "loop") =>
             /\ batch_start' = batch_start + batch_size
             /\ UNCHANGED <<remaining_to_process, batch_size>>
       /\ (pc \in {"idle", "done"} /\ pc' = "loop") => batch_start' = 0
       /\ (pc = "loop" /\ pc' \in {"done", "raised"}) =>
             batch_start >= Len(remaining_to_process)
       /\ (pc = "loop" /\ remaining_to_process = << >>) =>
             /\ pc' \in {"done", "raised", "killed"}
             /\ tasks' = << >>
             /\ UNCHANGED <<cache, voters>>]_vars

\* The second batch of one row each is running: the first row of the two
\* that remained was in the first batch.
C37_Witness ==
    /\ pc = "batch"
    /\ batch_size = 1
    /\ batch_start = 1
    /\ Len(remaining_to_process) = 2
    /\ Len(tasks) = 1
    /\ tasks[1].row = remaining_to_process[2]

\* Every task of the batch has returned and geocode takes its step after
\* the batch.
BatchEnds ==
    /\ pc = "batch"
    /\ \A i \in DOMAIN tasks : tasks[i].pc = "returned"
    /\ pc' \notin {"batch", "killed"}

\* The table row v is the row of task i.
RowOfTask(v, i) ==
    /\ v.building_id = tasks[i].row.building_id
    /\ v.street_address = tasks[i].row.street
    /\ v.city = tasks[i].row.city
    /\ v.state = tasks[i].row.state
    /\ v.zip_code = tasks[i].row.zip

\* C38: at the end of every batch the rows added to the table are the rows
\* of exactly the tasks that returned a result, a batch without a result
\* adds none, and the loop goes on to the next batch.
C38_ResolvedRowsAppended ==
    [][BatchEnds =>
          /\ pc' = "loop"
          /\ batch_start' = batch_start + batch_size
          /\ \A i \in DOMAIN tasks :
                Truthy(tasks[i].result) <=> \E v \in Appended : RowOfTask(v, i)
          /\ \A v \in Appended : \E i \in DOMAIN tasks : RowOfTask(v, i)
          /\ \A v \in voters : v \in voters']_vars

(***************************************************************************)
(* Properties of generate_isochrones without a cache directory.            *)
(***************************************************************************)
\* C39: while cache_dir is None no step of generate_isochrones changes a
\* cache file; the lookup of a location reads none and goes on to the
\* request; and every response that reaches the result was fetched in this
\* call by a request for its location.
C39_NoCacheDirNoFiles ==
    [][~cache_dir =>
          /\ iso_files' = iso_files
          /\ iso_pc = "lookup" => (iso_pc' \in {"sleep", "killed"} /\ isochrone' = None)
          /\ iso_pc' = "dump" => iso_pc = "dump"
          /\ iso_pc' = "shape" => (iso_pc = "json" /\ Attempts # << >>)]_vars

\* Without a cache directory, the response of a request goes into the
\* result for a location whose cache file an earlier call has written.
C39_Witness ==
    /\ ~cache_dir
    /\ iso_pc = "shape"
    /\ Decodable(iso_files[Filename])
    /\ Attempts # << >>
    /\ HasResults(isochrone)
    /\ isochrone # iso_files[Filename]

====
